---- MODULE Spec2Model ----
(***************************************************************************)
(* Quest progression and proof moderation of nasledie_bot.                 *)
(*                                                                         *)
(* The persistent store (users, team_members, teams, proofs) is the state; *)
(* every HTTP handler of app/app/api.py is one action.  Routes and         *)
(* checkpoints are seeded before the game and are a fixed fixture here.    *)
(* The clock is the wall clock read by now_utc() / the store's now(): it   *)
(* has microsecond resolution, so two requests that stamp a row never read *)
(* the same instant; every stamping handler reads `now` and advances it.   *)
(***************************************************************************)
EXTENDS Integers, Sequences, FiniteSets, Bags, TLC

VARIABLES
    users,      \* table users:        sequence, index = id
    members,    \* table team_members: sequence, index = id
    teams,      \* table teams:        sequence, index = id
    proofs,     \* table proofs:       sequence, index = id
    checkpoints, \* table checkpoints: set of rows
    now,        \* the clock
    last,       \* the response of the last handled request
    seen,       \* AdminWatcher._seen
    cards,      \* bag of version keys whose card reached the review channel
    wpc,        \* AdminWatcher._loop: "sleep" or "batch"
    batch,      \* AdminWatcher._loop: items of the current poll not yet handled
    backoff,    \* AdminWatcher._loop: the local `backoff`, in seconds
    delay,      \* seconds of the last sleep the loop took between two polls
    order,      \* history: the keys of _seen in the order they were added
    sentv,      \* history: <<id, updated_at>> of every item a send was tried for
    wlast,      \* history: what the last step of the loop did
    fails,      \* history: failed polls in a row, counted up to MaxFails
    _task,      \* AdminWatcher._task: a task id, or NULL
    _stopping,  \* AdminWatcher._stopping
    tasks,      \* every task start() may create: where it waits, cancel asked
    calls,      \* the stop() calls: idle, or awaiting a task
    stopped,    \* history: a stop() has returned and start() was not called since
    lev,        \* history: the last step of start(), stop() or a task
    _tasks,     \* Watchers._tasks: team id -> the task last created for it, or NULL
    _states,    \* Watchers._states: team id -> its _State, or NULL
    loops,      \* every task Watchers.start() created: its team and where it waits
    bsent,      \* history: the broadcasts of the team watchers, in order
    reqs,       \* in-flight requests of the step-wise (concurrent) handlers
    hist        \* history: every version key a proof row has had so far

vars == <<users, members, teams, proofs, checkpoints, now, last, seen, cards, wpc, batch,
          backoff, delay, order, sentv, wlast, fails,
          _task, _stopping, tasks, calls, stopped, lev,
          _tasks, _states, loops, bsent, reqs, hist>>
dbVars == <<users, members, teams, proofs, checkpoints>>
lifeVars == <<_task, _stopping, tasks, calls, stopped, lev>>
loopVars == <<seen, cards, wpc, batch, backoff, delay, order, sentv, wlast, fails>>
watchVars == <<_tasks, _states, loops, bsent>>
relayVars == <<loopVars, lifeVars, watchVars>>

\* ------------------------------------------------------------------ bounds
\* The clock stops the model after MaxTime stamps.
MaxTime == 5

\* Failed polls in a row are told apart up to this many.
MaxFails == 3

\* start() creates at most MaxTasks tasks; MaxCallers coroutines call stop().
MaxTasks == 3
MaxCallers == 2

\* Registration stops adding users rows at MaxUsers.
MaxUsers == 3

\* Watchers.start creates at most MaxLoops tasks.
MaxLoops == 3

\* The number of teams the route assignment is tried on.
RouteTeams == 4

\* ------------------------------------------------------- program constants
\* TEAM_SIZE = int(os.getenv("TEAM_SIZE") or 7): deployment-configured; the
\* model runs the deployment TEAM_SIZE=2 (the capacity of the spec scenario).
TEAM_SIZE == 2

\* SQL NULL / Python None.
NULL == -1

\* Python truthiness of a nullable integer column (None and 0 are falsy).
Truthy(x) == x # NULL /\ x # 0

\* ADMIN_POLL_SECONDS = int(os.getenv("ADMIN_POLL_SECONDS", "5")).
ADMIN_POLL_SECONDS == 5

\* AdminWatcher._loop: backoff = 1.0; sleep(min(backoff, 15.0));
\* backoff = min(backoff * 2.0, 60.0).
BACKOFF_BASE == 1
BACKOFF_SLEEP_CAP == 15
BACKOFF_CAP == 60

Min(a, b) == IF a <= b THEN a ELSE b
Max(a, b) == IF a >= b THEN a ELSE b

\* max(1.0, float(ADMIN_POLL_SECONDS or 2.0)): the sleep between two polls.
PollSleep == Max(1, IF ADMIN_POLL_SECONDS # 0 THEN ADMIN_POLL_SECONDS ELSE 2)

\* ------------------------------------------------------------------ fixture
\* Route 1 has two checkpoints, route 2 has one, route 3 has none.
RouteIds == {1, 2, 3}

Checkpoints ==
    { [id |-> 1, route_id |-> 1, order_num |-> 1],
      [id |-> 2, route_id |-> 1, order_num |-> 2],
      [id |-> 3, route_id |-> 2, order_num |-> 1] }

CheckpointById(cid) == CHOOSE c \in checkpoints : c.id = cid

\* Messaging identities that send requests: the captain and the player of
\* team 1, the captain of team 2, and a stranger.
TgIds == {11, 12, 13, 99}

\* Telegram file ids of submitted photos, and upload file names.
FileIds == {"f1", "f2"}
FileNames == {"f1"}

\* A media reference (Proof.photo_file_id): a Telegram file id, or the local
\* path team{team}_cp{cp}_{ts}_{name} of an uploaded file.
TgMedia(f) == <<"tg", 0, 0, 0, f>>
PathMedia(team_id, cp_id, ts, name) == <<"path", team_id, cp_id, ts, name>>

\* ------------------------------------------------------------------ queries
UserByTg(tg_id) ==
    LET S == {i \in DOMAIN users : users[i].tg_id = tg_id}
    IN  IF S = {} THEN NULL ELSE CHOOSE i \in S : TRUE

\* Mutant: the membership of a user is never found.
MemberByUser_None(user_id) == NULL

MemberByUser(user_id) ==
    LET S == {i \in DOMAIN members : members[i].user_id = user_id}
    IN  IF S = {} THEN NULL ELSE CHOOSE i \in S : TRUE

_team_member_count(team_id) ==
    Cardinality({i \in DOMAIN members : members[i].team_id = team_id})

_team_is_full(team_id) == _team_member_count(team_id) >= TEAM_SIZE

_route_total_checkpoints(route_id) ==
    IF ~Truthy(route_id) THEN 0
    ELSE Cardinality({c \in checkpoints : c.route_id = route_id})

\* Mutant: every route counts, with or without checkpoints.
_routes_with_checkpoints_All == RouteIds

_routes_with_checkpoints ==
    {r \in RouteIds : Cardinality({c \in checkpoints : c.route_id = r}) > 0}

\* The route _auto_assign_route_if_needed binds: fewest bound teams, the
\* first such in ascending id order; NULL when no route has a checkpoint.
BoundCount(ts, r) == Cardinality({i \in DOMAIN ts : ts[i].route_id = r})

_auto_assign_route(ts) ==
    LET routes == _routes_with_checkpoints
    IN  IF routes = {} THEN NULL
        ELSE CHOOSE r \in routes :
                \A q \in routes :
                    \/ BoundCount(ts, r) < BoundCount(ts, q)
                    \/ (BoundCount(ts, r) = BoundCount(ts, q) /\ r <= q)

\* The id of the checkpoint the team stands on, NULL when there is none.
_current_checkpoint(team) ==
    IF ~Truthy(team.route_id) \/ ~Truthy(team.current_order_num) THEN NULL
    ELSE LET S == {c \in checkpoints : /\ c.route_id = team.route_id
                                       /\ c.order_num = team.current_order_num}
         IN  IF S = {} THEN NULL ELSE (CHOOSE c \in S : TRUE).id

\* Mutant: no checkpoint is ever the last one.
_is_last_checkpoint_Never(team) == FALSE

\* Mutant: the checkpoint before the last counts as the last one.
_is_last_checkpoint_OffByOne(team) ==
    LET total == _route_total_checkpoints(team.route_id)
    IN  total # 0 /\ team.current_order_num >= total - 1

_is_last_checkpoint(team) ==
    LET total == _route_total_checkpoints(team.route_id)
    IN  total # 0 /\ team.current_order_num >= total

\* Mutant: the team is moved on by two checkpoints.
_advance_team_to_next_checkpoint_Twice(team) ==
    [team EXCEPT !.current_order_num = (IF Truthy(@) THEN @ ELSE 1) + 2]

_advance_team_to_next_checkpoint(team) ==
    [team EXCEPT !.current_order_num = (IF Truthy(@) THEN @ ELSE 1) + 1]

_approved_count_cp(ps, team_id) ==
    Cardinality({i \in DOMAIN ps : ps[i].team_id = team_id /\ ps[i].status = "APPROVED"})

\* ---------------------------------------------------------------- responses
\* op: the handler; arg: the tg_id or proof id it was called with; ref: the
\* file id or file name it was called with ("" when it takes none); code: the
\* HTTP status; ok / message / proof_id: the fields of the JSON body.
Reply(op, arg, ref, code, ok, message, proof_id) ==
    [op |-> op, arg |-> arg, ref |-> ref, code |-> code, ok |-> ok,
     message |-> message, proof_id |-> proof_id]

NoReply == Reply("none", NULL, "", 0, FALSE, "", NULL)

\* ------------------------------------------------------------ initial state
\* Two full teams as registration, captain promotion, route auto-assignment
\* and the one-shot rename leave them: the first member of each is CAPTAIN,
\* team 1 is bound to route 1 and team 2 to route 2, nobody has started.
\* A users row. The first name is the one of the messaging profile.
FirstNameOf(tg_id) == <<"first", tg_id>>

UserRow(tg_id, phone, first_name, last_name) ==
    [tg_id |-> tg_id, phone |-> phone, first_name |-> first_name,
     last_name |-> last_name]

User(tg_id) == UserRow(tg_id, <<"+7", tg_id>>, FirstNameOf(tg_id), NULL)

Member(team_id, user_id, role) ==
    [team_id |-> team_id, user_id |-> user_id, role |-> role]

Team(name, route_id) ==
    [name |-> name, is_locked |-> FALSE, route_id |-> route_id,
     current_order_num |-> 1, can_rename |-> FALSE,
     started_at |-> NULL, finished_at |-> NULL]

InitDb ==
    /\ users = <<User(11), User(12), User(13), User(14)>>
    /\ members = << Member(1, 1, "CAPTAIN"), Member(1, 2, "PLAYER"),
                    Member(2, 3, "CAPTAIN"), Member(2, 4, "PLAYER") >>
    /\ teams = << Team(<<"custom", 1>>, 1), Team(<<"custom", 2>>, 2) >>
    /\ proofs = <<>>
    /\ checkpoints = Checkpoints
    /\ now = 1
    /\ last = NoReply

\* The tasks start() may create and the coroutines that call stop().
TaskIds == 1..MaxTasks
Callers == 1..MaxCallers

\* A task that was not created yet; a stop() call that is not running.
NoTask == [st |-> "none", cancel |-> FALSE]
IdleCall == [pc |-> "idle", target |-> NULL]

\* AdminWatcher.__init__: no task, not stopping.
InitLife ==
    /\ _task = NULL
    /\ _stopping = FALSE
    /\ tasks = [t \in TaskIds |-> NoTask]
    /\ calls = [c \in Callers |-> IdleCall]
    /\ stopped = FALSE
    /\ lev = <<"none", 0>>

\* The teams the bot watches.
WatchTeams == {1}

\* Watchers._states.get(team_id) before start() has made the _State.
NoState == [made |-> FALSE, tg_id |-> NULL, last_cp_id |-> NULL, finished_sent |-> FALSE]

\* Watchers.__init__: no task, no state.
InitWatch ==
    /\ _tasks = [t \in WatchTeams |-> NULL]
    /\ _states = [t \in WatchTeams |-> NoState]
    /\ loops = <<>>
    /\ bsent = <<>>

InitRelay ==
    /\ InitLife
    /\ InitWatch
    /\ seen = {}
    /\ cards = EmptyBag
    /\ wpc = "sleep"
    /\ batch = <<>>
    /\ backoff = BACKOFF_BASE
    /\ delay = 0
    /\ order = <<>>
    /\ sentv = {}
    /\ wlast = "none"
    /\ fails = 0

Init == InitDb /\ InitRelay /\ reqs = <<>> /\ hist = {}

\* ---------------------------------------------------------------- game_start
\* Mutant: no name counts as a default name.
IsDefaultName_Never(name) == FALSE

IsDefaultName(name) == name[1] = "default"

\* Mutant: no team counts as started.
AlreadyStarted_Never(team) == FALSE

\* getattr(team, "started_at", None) is set.
AlreadyStarted(team) == team.started_at # NULL

game_start(tg_id) ==
    LET user == UserByTg(tg_id)
        member == IF user = NULL THEN NULL ELSE MemberByUser(user)
        tid == IF member = NULL THEN NULL ELSE members[member].team_id
        R(code, ok, message) == Reply("game_start", tg_id, "", code, ok, message, NULL)
    IN
    /\ UNCHANGED <<users, members, proofs, relayVars, checkpoints, reqs>>
    /\ IF user = NULL THEN
            last' = R(404, FALSE, "User not found") /\ UNCHANGED <<teams, now>>
       ELSE IF member = NULL THEN
            last' = R(409, FALSE, "User has no team") /\ UNCHANGED <<teams, now>>
       ELSE IF members[member].role # "CAPTAIN" THEN
            last' = R(403, FALSE, "Only captain can start") /\ UNCHANGED <<teams, now>>
       ELSE IF AlreadyStarted(teams[tid]) THEN
            last' = R(200, TRUE, "Already started") /\ UNCHANGED <<teams, now>>
       ELSE IF ~_team_is_full(tid) THEN
            last' = R(409, FALSE, "Team is not full yet") /\ UNCHANGED <<teams, now>>
       ELSE
            LET chosen == IF Truthy(teams[tid].route_id) THEN teams[tid].route_id
                          ELSE _auto_assign_route(teams)
                routed == IF chosen = NULL THEN teams
                          ELSE [teams EXCEPT ![tid].route_id = chosen]
            IN
            IF chosen = NULL THEN
                last' = R(409, FALSE, "Route is not assigned for this team")
                /\ UNCHANGED <<teams, now>>
            ELSE IF IsDefaultName(routed[tid].name) /\ routed[tid].can_rename THEN
                \* the route bound above is already committed
                /\ last' = R(409, FALSE, "Set custom team name first")
                /\ teams' = routed
                /\ UNCHANGED now
            ELSE
                /\ now <= MaxTime
                /\ teams' = [routed EXCEPT
                        ![tid].started_at = now,
                        ![tid].current_order_num = IF Truthy(@) THEN @ ELSE 1]
                /\ now' = now + 1
                /\ last' = R(200, TRUE, "Started")

\* ------------------------------------------------------------ proof rows
\* UniqueConstraint("team_id", "checkpoint_id"): TRUE when inserting a row
\* for (team_id, checkpoint_id) into ps violates it.
\* Mutant: the table has no such constraint.
uq_proof_team_checkpoint_Off(ps, team_id, checkpoint_id) == FALSE

uq_proof_team_checkpoint(ps, team_id, checkpoint_id) ==
    \E i \in DOMAIN ps : ps[i].team_id = team_id /\ ps[i].checkpoint_id = checkpoint_id

\* models.Proof(...) as the store completes it: status PENDING, created_at
\* and updated_at from the server default now().
NewProof(team_id, route_id, checkpoint_id, media, user_id, ts) ==
    [team_id |-> team_id, route_id |-> route_id, checkpoint_id |-> checkpoint_id,
     photo_file_id |-> media, status |-> "PENDING",
     submitted_by_user_id |-> user_id,
     judged_by |-> NULL, judged_at |-> NULL, comment |-> NULL,
     created_at |-> ts, updated_at |-> ts]

\* Mutant: the re-open leaves updated_at as the rejection stamped it.
ReopenProof_NoBump(p, media, user_id, ts) ==
    [p EXCEPT !.status = "PENDING", !.photo_file_id = media,
              !.submitted_by_user_id = user_id,
              !.judged_by = NULL, !.judged_at = NULL, !.comment = NULL]

\* The re-open of a REJECTED row by a new submission.
ReopenProof(p, media, user_id, ts) ==
    [p EXCEPT !.status = "PENDING", !.photo_file_id = media,
              !.submitted_by_user_id = user_id,
              !.judged_by = NULL, !.judged_at = NULL, !.comment = NULL,
              !.updated_at = ts]

\* The stamp approve / reject put on a proof (judged_by is the literal 0).
\* A judgement that flips the status and stamps nothing.
JudgeProof_NoStamp(p, status, ts) == [p EXCEPT !.status = status]

\* Mutant: the judgement stamps the row and leaves its status.
JudgeProof_KeepStatus(p, status, ts) ==
    [p EXCEPT !.judged_by = 0, !.judged_at = ts, !.updated_at = ts]

JudgeProof(p, status, ts) ==
    [p EXCEPT !.status = status, !.judged_by = 0, !.judged_at = ts, !.updated_at = ts]

\* Mutant: the PENDING query filters on a status no row has.
PendingRows_WrongStatus(ps, team_id, checkpoint_id) ==
    {i \in DOMAIN ps : /\ ps[i].team_id = team_id
                       /\ ps[i].checkpoint_id = checkpoint_id
                       /\ ps[i].status = "pending"}

PendingRows(ps, team_id, checkpoint_id) ==
    {i \in DOMAIN ps : /\ ps[i].team_id = team_id
                       /\ ps[i].checkpoint_id = checkpoint_id
                       /\ ps[i].status = "PENDING"}

RejectedRows(ps, team_id, checkpoint_id) ==
    {i \in DOMAIN ps : /\ ps[i].team_id = team_id
                       /\ ps[i].checkpoint_id = checkpoint_id
                       /\ ps[i].status = "REJECTED"}

MaxOf(S) == CHOOSE x \in S : \A y \in S : y <= x

\* ------------------------------------------------ submit_photo_json / _file
\* The two handlers run the same steps; they differ in the media reference
\* they store (kind "tg": the Telegram file id; kind "path": the path of the
\* file just written, named after team, checkpoint and the clock).
Media(kind, team_id, checkpoint_id, ts, name) ==
    IF kind = "tg" THEN TgMedia(name) ELSE PathMedia(team_id, checkpoint_id, ts, name)

SubmitPhoto(op, tg_id, kind, name) ==
    LET user == UserByTg(tg_id)
        member == IF user = NULL THEN NULL ELSE MemberByUser(user)
        tid == IF member = NULL THEN NULL ELSE members[member].team_id
        cp == IF tid = NULL THEN NULL ELSE _current_checkpoint(teams[tid])
        media == Media(kind, tid, cp, now, name)
        pend == PendingRows(proofs, tid, cp)
        rej == RejectedRows(proofs, tid, cp)
        R(code, ok, message, pid) == Reply(op, tg_id, name, code, ok, message, pid)
    IN
    /\ UNCHANGED <<users, members, teams, relayVars, checkpoints, reqs>>
    /\ IF user = NULL THEN
            last' = R(404, FALSE, "User not found", NULL) /\ UNCHANGED <<proofs, now>>
       ELSE IF member = NULL THEN
            last' = R(409, FALSE, "User has no team", NULL) /\ UNCHANGED <<proofs, now>>
       ELSE IF members[member].role # "CAPTAIN" THEN
            last' = R(403, FALSE, "Only captain can submit", NULL)
            /\ UNCHANGED <<proofs, now>>
       ELSE IF teams[tid].started_at = NULL THEN
            last' = R(409, FALSE, "Team has not started yet", NULL)
            /\ UNCHANGED <<proofs, now>>
       ELSE IF cp = NULL THEN
            last' = R(200, FALSE, "Route already finished", NULL)
            /\ UNCHANGED <<proofs, now>>
       ELSE IF pend # {} THEN
            /\ \E i \in pend : last' = R(200, TRUE, "Already queued for moderation", i)
            /\ UNCHANGED <<proofs, now>>
       ELSE IF rej # {} THEN
            /\ now <= MaxTime
            /\ proofs' = [proofs EXCEPT ![MaxOf(rej)] = ReopenProof(@, media, user, now)]
            /\ now' = now + 1
            /\ last' = R(200, TRUE, "Re-queued for moderation", MaxOf(rej))
       ELSE IF uq_proof_team_checkpoint(proofs, tid, cp) THEN
            \* IntegrityError at commit: the request ends 500, nothing is stored
            last' = R(500, FALSE, "IntegrityError", NULL) /\ UNCHANGED <<proofs, now>>
       ELSE
            /\ now <= MaxTime
            /\ proofs' = Append(proofs,
                    NewProof(tid, teams[tid].route_id, cp, media, user, now))
            /\ now' = now + 1
            /\ last' = R(200, TRUE, "Queued for moderation", Len(proofs) + 1)

submit_photo_json(tg_id, tg_file_id) ==
    IF tg_file_id = "" THEN
        /\ last' = Reply("submit_photo_json", tg_id, tg_file_id, 400, FALSE,
                         "tg_id and tg_file_id are required", NULL)
        /\ UNCHANGED <<dbVars, now, relayVars, reqs>>
    ELSE SubmitPhoto("submit_photo_json", tg_id, "tg", tg_file_id)

submit_photo_file(tg_id, filename) ==
    SubmitPhoto("submit_photo_file", tg_id, "path", filename)

\* ------------------------------------------------ admin_approve / _reject
\* if proof.status != "PENDING": return {"ok": False, "message": "Already processed"}
\* Mutant: the check lets every proof through.
NotPending_Never(proof) == FALSE

NotPending(proof) == proof.status # "PENDING"

\* What approve does to the team once the proof is stamped.
AdvanceOrFinish(team, ts) ==
    IF _is_last_checkpoint(team) THEN
        IF team.finished_at = NULL THEN [team EXCEPT !.finished_at = ts] ELSE team
    ELSE _advance_team_to_next_checkpoint(team)

admin_approve(proof_id) ==
    LET R(code, ok, message) == Reply("admin_approve", proof_id, "", code, ok, message, proof_id)
    IN
    /\ UNCHANGED <<users, members, relayVars, checkpoints, reqs>>
    /\ IF proof_id \notin DOMAIN proofs THEN
            last' = R(404, FALSE, "Proof not found") /\ UNCHANGED <<proofs, teams, now>>
       ELSE IF NotPending(proofs[proof_id]) THEN
            last' = R(200, FALSE, "Already processed") /\ UNCHANGED <<proofs, teams, now>>
       ELSE
            LET tid == proofs[proof_id].team_id IN
            /\ now <= MaxTime
            /\ proofs' = [proofs EXCEPT ![proof_id] = JudgeProof(@, "APPROVED", now)]
            /\ teams' = [teams EXCEPT ![tid] = AdvanceOrFinish(@, now)]
            /\ now' = now + 1
            /\ last' = R(200, TRUE, "progress")

admin_reject(proof_id) ==
    LET R(code, ok, message) == Reply("admin_reject", proof_id, "", code, ok, message, proof_id)
    IN
    /\ UNCHANGED <<users, members, teams, relayVars, checkpoints, reqs>>
    /\ IF proof_id \notin DOMAIN proofs THEN
            last' = R(404, FALSE, "Proof not found") /\ UNCHANGED <<proofs, now>>
       ELSE IF NotPending(proofs[proof_id]) THEN
            last' = R(200, FALSE, "Already processed") /\ UNCHANGED <<proofs, now>>
       ELSE
            /\ now <= MaxTime
            /\ proofs' = [proofs EXCEPT ![proof_id] = JudgeProof(@, "REJECTED", now)]
            /\ now' = now + 1
            /\ last' = R(200, TRUE, "progress")

\* ------------------------------------------------------------ AdminWatcher
\* len(self._seen) > 10000 trims the set to 4000 keys.  The model keeps the
\* shape of the rule at a scale its runs reach: more than SEEN_MAX keys are
\* cut down to SEEN_KEEP.
SEEN_MAX == 2
SEEN_KEEP == 1

\* GET /api/admin/proofs/pending: the PENDING proofs, oldest created_at first
\* (ids are handed out in creation order, so that is ascending id).
PendingItem(ps, i) ==
    [id |-> i, photo_file_id |-> ps[i].photo_file_id,
     created_at |-> ps[i].created_at, updated_at |-> ps[i].updated_at]

admin_pending ==
    SelectSeq([i \in 1 .. Len(proofs) |-> PendingItem(proofs, i)],
              LAMBDA it : proofs[it.id].status = "PENDING")

\* Mutant: the key is the proof id alone.
_version_key_IdOnly(item) == << item.id, 0, "" >>

\* f"{pid}:{updated_at or created_at or ''}:{photo_file_id or ''}"
_version_key(item) ==
    << item.id,
       IF item.updated_at # NULL THEN item.updated_at ELSE item.created_at,
       item.photo_file_id >>

\* _send_proof_card: bot.send_photo either delivers the card or raises; the
\* exception is logged inside and the function returns None either way.
_send_proof_card(delivered) == "None"

\* What the transport does to one GET /api/admin/proofs/pending.
PollOutcomes == {"ok", "http_error", "network_error"}

\* api_client._req_json: the status and body of the answer; a transport
\* error is caught inside and comes back as status 0 with a dict, so the
\* call never raises.
_req_json(outcome, body) ==
    IF outcome = "ok" THEN [raised |-> FALSE, st |-> 200, is_list |-> TRUE, items |-> body]
    ELSE IF outcome = "http_error"
         THEN [raised |-> FALSE, st |-> 500, is_list |-> FALSE, items |-> <<>>]
    ELSE [raised |-> FALSE, st |-> 0, is_list |-> FALSE, items |-> <<>>]

\* api_client.admin_pending.
client_admin_pending(outcome) == _req_json(outcome, admin_pending)

\* One poll, up to the first item of the batch or to the end of the sleep
\* that follows a poll without a batch.
W_poll ==
    /\ wpc = "sleep"
    /\ \E outcome \in PollOutcomes :
         LET res == client_admin_pending(outcome) IN
         IF res.raised THEN
              \* except Exception: sleep(min(backoff, 15.0)), double, continue
              /\ delay' = Min(backoff, BACKOFF_SLEEP_CAP)
              /\ backoff' = Min(backoff * 2, BACKOFF_CAP)
              /\ wlast' = "poll_raised"
              /\ fails' = Min(fails + 1, MaxFails)
              /\ UNCHANGED <<wpc, batch>>
         ELSE IF res.st = 200 /\ res.is_list THEN
              /\ batch' = res.items
              /\ wpc' = "batch"
              /\ wlast' = "poll_ok"
              /\ fails' = 0
              /\ UNCHANGED <<backoff, delay>>
         ELSE
              \* "bad /pending response": the plain sleep, backoff untouched
              /\ delay' = PollSleep
              /\ wlast' = "poll_bad"
              /\ fails' = Min(fails + 1, MaxFails)
              /\ UNCHANGED <<wpc, batch, backoff>>
    /\ UNCHANGED <<dbVars, now, last, seen, cards, order, sentv, lifeVars, watchVars, reqs>>

\* Mutant: the loop gives up the batch after an item.
NextItems_Abort(items) == <<>>

\* for p in items: whatever the body did, the loop goes on with the rest.
NextItems(items) == Tail(items)

\* The loop body for the next item of the batch.
W_item ==
    /\ wpc = "batch"
    /\ batch # <<>>
    /\ LET p == Head(batch)
           key == _version_key(p)
       IN  IF key \in seen THEN
                /\ wlast' = "skip"
                /\ UNCHANGED <<seen, cards, order, sentv>>
           ELSE \E delivered \in BOOLEAN :
                    LET ok == _send_proof_card(delivered) IN
                    /\ cards' = IF delivered THEN cards (+) SetToBag({key}) ELSE cards
                    /\ seen' = IF ok # "False" THEN seen \cup {key} ELSE seen
                    /\ order' = IF ok # "False" THEN Append(order, key) ELSE order
                    /\ sentv' = sentv \cup {<<p.id, p.updated_at>>}
                    /\ wlast' = IF delivered THEN "sent" ELSE "failed"
    /\ batch' = NextItems(batch)
    /\ UNCHANGED <<dbVars, now, last, wpc, backoff, delay, fails, lifeVars, watchVars, reqs>>

\* set(list(self._seen)[-4000:]): the iteration order of a set of strings is
\* arbitrary, so any SEEN_KEEP of the keys may be the ones kept.
TrimSeen(S) ==
    IF Cardinality(S) > SEEN_MAX
    THEN {K \in SUBSET S : Cardinality(K) = SEEN_KEEP}
    ELSE {S}

\* The end of the batch: trim the seen set, reset the backoff, then sleep
\* until the next poll.
W_end ==
    /\ wpc = "batch"
    /\ batch = <<>>
    /\ seen' \in TrimSeen(seen)
    /\ order' = SelectSeq(order, LAMBDA k : k \in seen')
    /\ backoff' = BACKOFF_BASE
    /\ delay' = PollSleep
    /\ wpc' = "sleep"
    /\ wlast' = "end"
    /\ UNCHANGED <<dbVars, now, last, cards, batch, sentv, fails, lifeVars, watchVars, reqs>>

\* ------------------------------------------------------------ specification
\* Requests are handled one at a time (each handler is one step).
ProofIds == 1 .. (Len(proofs) + 1)

\* The history variable follows the table: the keys of all rows after the step.
KeysOf(ps) == {_version_key(PendingItem(ps, i)) : i \in DOMAIN ps}
Record == hist' = hist \cup KeysOf(proofs')

Start == \E tg \in TgIds : game_start(tg) /\ Record
SubmitJson == \E tg \in TgIds, f \in FileIds \cup {""} : submit_photo_json(tg, f) /\ Record
SubmitFile == \E tg \in TgIds, f \in FileNames : submit_photo_file(tg, f) /\ Record
Approve == \E p \in ProofIds : admin_approve(p) /\ Record
Reject == \E p \in ProofIds : admin_reject(p) /\ Record

Next == Start \/ SubmitJson \/ SubmitFile \/ Approve \/ Reject

Spec == Init /\ [][Next]_vars

\* The relay beside the handlers: one team, already started (at time 0), its
\* captain submitting and the moderators judging while the relay polls.
StartedTeam(name, route_id) == [Team(name, route_id) EXCEPT !.started_at = 0]

InitRelaySpec ==
    /\ users = <<User(11), User(12)>>
    /\ members = << Member(1, 1, "CAPTAIN"), Member(1, 2, "PLAYER") >>
    /\ teams = << StartedTeam(<<"custom", 1>>, 1) >>
    /\ proofs = <<>>
    /\ checkpoints = Checkpoints
    /\ now = 1
    /\ last = NoReply
    /\ InitRelay
    /\ reqs = <<>>
    /\ hist = {}

RelaySubmit == \E f \in FileIds : submit_photo_json(11, f) /\ UNCHANGED hist
RelayApprove == \E p \in DOMAIN proofs : admin_approve(p) /\ UNCHANGED hist
RelayReject == \E p \in DOMAIN proofs : admin_reject(p) /\ UNCHANGED hist
RelayPoll == W_poll /\ UNCHANGED hist
RelayItem == W_item /\ UNCHANGED hist
RelayEnd == W_end /\ UNCHANGED hist

NextRelay == RelaySubmit \/ RelayApprove \/ RelayReject \/ RelayPoll \/ RelayItem \/ RelayEnd

SpecRelay == InitRelaySpec /\ [][NextRelay]_vars

\* The same under fair scheduling: the event loop always resumes the relay
\* task, and polls and sends that are tried again and again succeed at last.
PollOk == RelayPoll /\ wlast' = "poll_ok"
ItemSent == RelayItem /\ wlast' = "sent"

SpecRelayFair ==
    /\ InitRelaySpec
    /\ [][NextRelay]_vars
    /\ WF_vars(RelayPoll) /\ WF_vars(RelayItem) /\ WF_vars(RelayEnd)
    /\ SF_vars(PollOk) /\ SF_vars(ItemSent)

\* The relay with two teams in the queue at once: both teams started, their
\* captains submitting and the moderators rejecting while the relay polls.
InitBatch ==
    /\ users = <<User(11), User(12), User(13)>>
    /\ members = << Member(1, 1, "CAPTAIN"), Member(1, 2, "PLAYER"),
                    Member(2, 3, "CAPTAIN") >>
    /\ teams = << StartedTeam(<<"custom", 1>>, 1), StartedTeam(<<"custom", 2>>, 2) >>
    /\ proofs = <<>>
    /\ checkpoints = Checkpoints
    /\ now = 1
    /\ last = NoReply
    /\ InitRelay
    /\ reqs = <<>>
    /\ hist = {}

BatchSubmit == \E tg \in {11, 13} : submit_photo_json(tg, "f1") /\ UNCHANGED hist

NextBatch == BatchSubmit \/ RelayPoll \/ RelayItem \/ RelayEnd

SpecBatch == InitBatch /\ [][NextBatch]_vars

\* ------------------------------------------- handlers as overlapping requests
\* The handlers are plain `def` endpoints: the framework runs each request in
\* a worker thread with a session of its own, so requests overlap and only
\* single statements of the store are atomic.  A request slot holds the
\* position of one in-flight request and what it has read so far; two slots
\* give every interleaving of two overlapping requests.
Slots == {1, 2}

NoMedia == <<"none", 0, 0, 0, "">>

IdleReq ==
    [pc |-> "idle", op |-> "none", pid |-> NULL, ver |-> NULL, tid |-> NULL,
     cp |-> NULL, user |-> NULL, media |-> NoMedia, con |-> NULL, result |-> "none"]

Free(s) == reqs[s].pc \in {"idle", "done"}

Done(r, result) == [r EXCEPT !.pc = "done", !.result = result]

\* admin_approve / admin_reject, db.get(Proof) and the PENDING check.
C_judge_begin(s, op, proof_id) ==
    /\ Free(s)
    /\ LET r == [IdleReq EXCEPT !.op = op, !.pid = proof_id] IN
       reqs' = [reqs EXCEPT ![s] =
            IF proof_id \notin DOMAIN proofs THEN Done(r, "404")
            ELSE IF NotPending(proofs[proof_id]) THEN Done(r, "already")
            ELSE [r EXCEPT !.pc = "commit",
                           !.ver = proofs[proof_id].updated_at,
                           !.tid = proofs[proof_id].team_id]]
    /\ UNCHANGED <<dbVars, now, last, relayVars>>

\* admin_approve / admin_reject, the stamp and db.commit(): the UPDATE is by
\* primary key, whatever the row's status has become meanwhile.
C_judge_commit(s) ==
    /\ reqs[s].pc = "commit"
    /\ now <= MaxTime
    /\ proofs' = [proofs EXCEPT ![reqs[s].pid] =
            JudgeProof(@, IF reqs[s].op = "approve" THEN "APPROVED" ELSE "REJECTED", now)]
    /\ now' = now + 1
    /\ reqs' = [reqs EXCEPT ![s] =
            IF reqs[s].op = "approve" THEN [@ EXCEPT !.pc = "team", !.result = "ok"]
            ELSE Done(@, "ok")]
    /\ UNCHANGED <<users, members, teams, last, relayVars, checkpoints>>

\* admin_approve, db.get(Team) and _is_last_checkpoint.
C_approve_team(s) ==
    /\ reqs[s].pc = "team"
    /\ LET team == teams[reqs[s].tid] IN
       reqs' = [reqs EXCEPT ![s] =
            IF _is_last_checkpoint(team) THEN
                IF team.finished_at = NULL THEN [@ EXCEPT !.pc = "finish"] ELSE Done(@, "ok")
            ELSE [@ EXCEPT !.pc = "advance", !.con = team.current_order_num]]
    /\ UNCHANGED <<dbVars, now, last, relayVars>>

\* admin_approve, the write of the team row: finished_at, or the counter
\* computed from the value read.
C_approve_write(s) ==
    /\ reqs[s].pc \in {"finish", "advance"}
    /\ LET tid == reqs[s].tid IN
       IF reqs[s].pc = "finish" THEN
            /\ now <= MaxTime
            /\ teams' = [teams EXCEPT ![tid].finished_at = now]
            /\ now' = now + 1
       ELSE
            /\ teams' = [teams EXCEPT ![tid].current_order_num =
                    _advance_team_to_next_checkpoint(
                        [teams[tid] EXCEPT !.current_order_num = reqs[s].con]
                    ).current_order_num]
            /\ UNCHANGED now
    /\ reqs' = [reqs EXCEPT ![s] = Done(@, "ok")]
    /\ UNCHANGED <<users, members, proofs, last, relayVars, checkpoints>>

\* submit_photo_json up to the query for a PENDING row.
C_submit_begin(s, tg_id, tg_file_id) ==
    /\ Free(s)
    /\ LET user == UserByTg(tg_id)
           member == IF user = NULL THEN NULL ELSE MemberByUser(user)
           tid == IF member = NULL THEN NULL ELSE members[member].team_id
           cp == IF tid = NULL THEN NULL ELSE _current_checkpoint(teams[tid])
           pend == PendingRows(proofs, tid, cp)
           r == [IdleReq EXCEPT !.op = "submit", !.user = user, !.tid = tid, !.cp = cp,
                                !.media = TgMedia(tg_file_id)]
       IN
       IF user = NULL THEN reqs' = [reqs EXCEPT ![s] = Done(r, "404")]
       ELSE IF member = NULL THEN reqs' = [reqs EXCEPT ![s] = Done(r, "409")]
       ELSE IF members[member].role # "CAPTAIN" THEN reqs' = [reqs EXCEPT ![s] = Done(r, "403")]
       ELSE IF teams[tid].started_at = NULL THEN reqs' = [reqs EXCEPT ![s] = Done(r, "409")]
       ELSE IF cp = NULL THEN reqs' = [reqs EXCEPT ![s] = Done(r, "finished")]
       ELSE IF pend # {} THEN
            \E i \in pend : reqs' = [reqs EXCEPT ![s] = Done([r EXCEPT !.pid = i], "queued")]
       ELSE reqs' = [reqs EXCEPT ![s] = [r EXCEPT !.pc = "q_rejected"]]
    /\ UNCHANGED <<dbVars, now, last, relayVars>>

\* submit_photo_json, the query for a REJECTED row.
C_submit_rejected(s) ==
    /\ reqs[s].pc = "q_rejected"
    /\ LET rej == RejectedRows(proofs, reqs[s].tid, reqs[s].cp) IN
       reqs' = [reqs EXCEPT ![s] =
            IF rej # {} THEN [@ EXCEPT !.pc = "reopen", !.pid = MaxOf(rej)]
            ELSE [@ EXCEPT !.pc = "insert"]]
    /\ UNCHANGED <<dbVars, now, last, relayVars>>

\* submit_photo_json, db.commit() of the re-opened or the new row.
C_submit_write(s) ==
    /\ reqs[s].pc \in {"reopen", "insert"}
    /\ LET r == reqs[s] IN
       IF r.pc = "reopen" THEN
            /\ now <= MaxTime
            /\ proofs' = [proofs EXCEPT ![r.pid] = ReopenProof(@, r.media, r.user, now)]
            /\ now' = now + 1
            /\ reqs' = [reqs EXCEPT ![s] = Done(@, "requeued")]
       ELSE IF uq_proof_team_checkpoint(proofs, r.tid, r.cp) THEN
            /\ reqs' = [reqs EXCEPT ![s] = Done(@, "500")]
            /\ UNCHANGED <<proofs, now>>
       ELSE
            /\ now <= MaxTime
            /\ proofs' = Append(proofs,
                    NewProof(r.tid, teams[r.tid].route_id, r.cp, r.media, r.user, now))
            /\ now' = now + 1
            /\ reqs' = [reqs EXCEPT ![s] = Done([@ EXCEPT !.pid = Len(proofs) + 1], "created")]
    /\ UNCHANGED <<users, members, teams, last, relayVars, checkpoints>>

InitConc ==
    /\ users = <<User(11), User(12)>>
    /\ members = << Member(1, 1, "CAPTAIN"), Member(1, 2, "PLAYER") >>
    /\ teams = << StartedTeam(<<"custom", 1>>, 1) >>
    /\ proofs = <<>>
    /\ checkpoints = Checkpoints
    /\ now = 1
    /\ last = NoReply
    /\ InitRelay
    /\ reqs = [s \in Slots |-> IdleReq]
    /\ hist = {}

ConcJudge == \E s \in Slots, op \in {"approve", "reject"}, p \in DOMAIN proofs :
                C_judge_begin(s, op, p) /\ UNCHANGED hist
ConcCommit == \E s \in Slots : C_judge_commit(s) /\ UNCHANGED hist
ConcTeam == \E s \in Slots : C_approve_team(s) /\ UNCHANGED hist
ConcTeamWrite == \E s \in Slots : C_approve_write(s) /\ UNCHANGED hist
ConcSubmit == \E s \in Slots, f \in FileIds : C_submit_begin(s, 11, f) /\ UNCHANGED hist
ConcRejected == \E s \in Slots : C_submit_rejected(s) /\ UNCHANGED hist
ConcWrite == \E s \in Slots : C_submit_write(s) /\ UNCHANGED hist

NextConc ==
    \/ ConcJudge \/ ConcCommit \/ ConcTeam \/ ConcTeamWrite
    \/ ConcSubmit \/ ConcRejected \/ ConcWrite

SpecConc == InitConc /\ [][NextConc]_vars

\* ------------------------------------ AdminWatcher.start / stop and its tasks
\* `not task.done()`: the task was created and has not ended.
Running(t) == tasks[t].st \notin {"none", "done"}

\* History: the step taken is `op` (the second field flips at every step).
Event(op) == lev' = <<op, 1 - lev[2]>>

\* AdminWatcher.start, with ADMIN_CHAT_ID configured: nothing while the task
\* of self._task is not done, else clear _stopping and create a task.
start ==
    /\ stopped' = FALSE
    /\ IF _task # NULL /\ Running(_task)
       THEN /\ Event("start_noop")
            /\ UNCHANGED <<_task, _stopping, tasks>>
       ELSE \E t \in TaskIds :
                /\ tasks[t].st = "none"
                /\ \A u \in TaskIds : u < t => tasks[u].st # "none"
                /\ _stopping' = FALSE
                /\ tasks' = [tasks EXCEPT ![t] = [st |-> "new", cancel |-> FALSE]]
                /\ _task' = t
                /\ Event("start")
    /\ UNCHANGED calls

\* AdminWatcher.stop up to its await: set _stopping; cancel the task of
\* self._task and await it, or (no such task) clear self._task and return.
stop_call(c) ==
    /\ calls[c].pc = "idle"
    /\ _stopping' = TRUE
    /\ IF _task # NULL /\ Running(_task)
       THEN /\ tasks' = [tasks EXCEPT ![_task].cancel = TRUE]
            /\ calls' = [calls EXCEPT ![c] = [pc |-> "await", target |-> _task]]
            /\ Event("stop_await")
            /\ UNCHANGED <<_task, stopped>>
       ELSE /\ _task' = NULL
            /\ stopped' = TRUE
            /\ Event("stop_return")
            /\ UNCHANGED <<tasks, calls>>

\* AdminWatcher.stop after its await: the awaited task is done; clear
\* self._task and return.
stop_resume(c) ==
    /\ calls[c].pc = "await"
    /\ ~Running(calls[c].target)
    /\ _task' = NULL
    /\ calls' = [calls EXCEPT ![c] = IdleCall]
    /\ stopped' = TRUE
    /\ Event("stop_return")
    /\ UNCHANGED <<_stopping, tasks>>

\* One resumption of a task running AdminWatcher._loop, up to its next await.
\* A cancelled task gets CancelledError at the await it waits in (no handler
\* on the way catches it) and ends. Otherwise: the while test, sleep(0), the
\* poll, a send for an item of the batch, the sleep between two polls.
task_step(t) ==
    /\ Running(t)
    /\ IF tasks[t].cancel
       THEN tasks' = [tasks EXCEPT ![t].st = "done"] /\ Event("cancelled")
       ELSE CASE tasks[t].st \in {"new", "sleep"} ->
                    IF _stopping
                    THEN tasks' = [tasks EXCEPT ![t].st = "done"] /\ Event("finished")
                    ELSE tasks' = [tasks EXCEPT ![t].st = "yield"] /\ Event("loop")
              [] tasks[t].st = "yield" ->
                    tasks' = [tasks EXCEPT ![t].st = "poll"] /\ Event("poll")
              [] tasks[t].st \in {"poll", "send"} ->
                    \E nxt \in {"send", "sleep"} :
                        tasks' = [tasks EXCEPT ![t].st = nxt] /\ Event(nxt)
    /\ UNCHANGED <<_task, _stopping, calls, stopped>>

\* start(), stop() and the tasks, beside an idle backend.
LifeStart == start /\ UNCHANGED <<dbVars, now, last, loopVars, watchVars, reqs, hist>>
LifeStop == \E c \in Callers : stop_call(c) /\ UNCHANGED <<dbVars, now, last, loopVars, watchVars, reqs, hist>>
LifeResume == \E c \in Callers : stop_resume(c) /\ UNCHANGED <<dbVars, now, last, loopVars, watchVars, reqs, hist>>
LifeTask == \E t \in TaskIds : task_step(t) /\ UNCHANGED <<dbVars, now, last, loopVars, watchVars, reqs, hist>>

NextLife == LifeStart \/ LifeStop \/ LifeResume \/ LifeTask

SpecLife == InitRelaySpec /\ [][NextLife]_vars

\* ------------------------------------------------ Watchers (one per team)
\* GET /api/game/current as the bot reads it: <<status, finished, id of the
\* checkpoint>>.
game_current(tg_id) ==
    LET user == UserByTg(tg_id)
        member == IF user = NULL THEN NULL ELSE MemberByUser(user)
        team == teams[members[member].team_id]
    IN  IF user = NULL THEN <<404, FALSE, NULL>>
        ELSE IF member = NULL THEN <<409, FALSE, NULL>>
        ELSE IF team.finished_at # NULL THEN <<200, TRUE, NULL>>
        ELSE IF team.started_at = NULL THEN <<409, FALSE, NULL>>
        ELSE IF _current_checkpoint(team) = NULL THEN <<200, TRUE, NULL>>
        ELSE <<200, FALSE, _current_checkpoint(team)>>

\* api_client.current_checkpoint: the answer of the server, or status 0
\* when the request failed.
current_checkpoint(tg_id) == {game_current(tg_id), <<0, FALSE, NULL>>}

\* _State(team_id, tg_id, bot)
_State(tg_id) == [made |-> TRUE, tg_id |-> tg_id, last_cp_id |-> NULL, finished_sent |-> FALSE]

\* Mutant: no loop ever counts as running.
Watchers_running_Never(team_id) == FALSE

\* Watchers.running: the team has a task and it is not done.
Watchers_running(team_id) ==
    _tasks[team_id] # NULL /\ loops[_tasks[team_id]].pc # "done"

\* Watchers.start: nothing but the new tg_id while the loop runs; else the
\* _State is kept (or made) and a task is created for _loop.
Watchers_start(team_id, tg_id) ==
    IF Watchers_running(team_id) THEN
        /\ _states' = [_states EXCEPT ![team_id] =
                            IF @.made THEN [@ EXCEPT !.tg_id = tg_id] ELSE @]
        /\ UNCHANGED <<_tasks, loops, bsent>>
    ELSE
        /\ Len(loops) < MaxLoops
        /\ _states' = [_states EXCEPT ![team_id] =
                            IF @.made THEN [@ EXCEPT !.tg_id = tg_id] ELSE _State(tg_id)]
        /\ loops' = Append(loops, [team_id |-> team_id, pc |-> "first", cp |-> NULL])
        /\ _tasks' = [_tasks EXCEPT ![team_id] = Len(loops) + 1]
        /\ UNCHANGED bsent

\* Watchers._loop, task i, from one await to the next.
\* The task starts: with last_cp_id unset it asks for the current checkpoint.
loop_first(i) ==
    LET t == loops[i].team_id IN
    /\ loops[i].pc = "first"
    /\ loops' = [loops EXCEPT ![i].pc =
                    IF _states[t].last_cp_id = NULL THEN "first_wait" ELSE "sleep"]
    /\ UNCHANGED <<_tasks, _states, bsent>>

\* The answer arrives: a checkpoint is recorded in last_cp_id and its card
\* goes out next.
loop_first_answer(i) ==
    LET t == loops[i].team_id IN
    /\ loops[i].pc = "first_wait"
    /\ \E o \in current_checkpoint(_states[t].tg_id) :
            IF o[1] = 200 /\ ~o[2] /\ o[3] # NULL
            THEN /\ _states' = [_states EXCEPT ![t].last_cp_id = o[3]]
                 /\ loops' = [loops EXCEPT ![i].pc = "send_first", ![i].cp = o[3]]
            ELSE /\ loops' = [loops EXCEPT ![i].pc = "sleep"]
                 /\ UNCHANGED _states
    /\ UNCHANGED <<_tasks, bsent>>

\* _broadcast of the first task card has returned.
loop_send_first(i) ==
    LET t == loops[i].team_id IN
    /\ loops[i].pc = "send_first"
    /\ bsent' = Append(bsent, <<t, "card", loops[i].cp>>)
    /\ loops' = [loops EXCEPT ![i].pc = "sleep", ![i].cp = NULL]
    /\ UNCHANGED <<_tasks, _states>>

\* After the sleep the poll is answered: finished, a new checkpoint, or
\* nothing to do.
loop_poll(i) ==
    LET t == loops[i].team_id
        st == _states[t]
    IN
    /\ loops[i].pc = "sleep"
    /\ \E o \in current_checkpoint(st.tg_id) :
            loops' = [loops EXCEPT ![i] =
                IF o[1] # 200 THEN @
                ELSE IF o[2] THEN
                    [@ EXCEPT !.pc = IF st.finished_sent THEN "done" ELSE "send_finish"]
                ELSE IF o[3] = NULL THEN @
                ELSE IF st.last_cp_id # NULL /\ o[3] # st.last_cp_id
                    THEN [@ EXCEPT !.pc = "send_ack", !.cp = o[3]]
                ELSE @]
    /\ UNCHANGED <<_tasks, _states, bsent>>

\* _broadcast of the finish message has returned: finished_sent, break.
loop_send_finish(i) ==
    LET t == loops[i].team_id IN
    /\ loops[i].pc = "send_finish"
    /\ bsent' = Append(bsent, <<t, "finish", NULL>>)
    /\ _states' = [_states EXCEPT ![t].finished_sent = TRUE]
    /\ loops' = [loops EXCEPT ![i].pc = "done"]
    /\ UNCHANGED _tasks

\* _broadcast of the acknowledgement has returned.
loop_send_ack(i) ==
    LET t == loops[i].team_id IN
    /\ loops[i].pc = "send_ack"
    /\ bsent' = Append(bsent, <<t, "ack", loops[i].cp>>)
    /\ loops' = [loops EXCEPT ![i].pc = "send_card"]
    /\ UNCHANGED <<_tasks, _states>>

\* _broadcast of the card of the new checkpoint has returned: last_cp_id.
loop_send_card(i) ==
    LET t == loops[i].team_id IN
    /\ loops[i].pc = "send_card"
    /\ bsent' = Append(bsent, <<t, "card", loops[i].cp>>)
    /\ _states' = [_states EXCEPT ![t].last_cp_id = loops[i].cp]
    /\ loops' = [loops EXCEPT ![i].pc = "sleep", ![i].cp = NULL]
    /\ UNCHANGED _tasks

\* except Exception: an error raised while a card or the finish message is
\* built ends the loop before the message goes out.
loop_error(i) ==
    /\ loops[i].pc \in {"send_first", "send_card", "send_finish"}
    /\ loops' = [loops EXCEPT ![i].pc = "done", ![i].cp = NULL]
    /\ UNCHANGED <<_tasks, _states, bsent>>

\* The captain of team 1 plays the route while the bot's handlers call
\* start() and the loops run.
WatchOther == UNCHANGED <<dbVars, now, last, loopVars, lifeVars, reqs, hist>>
WatchDb == UNCHANGED <<watchVars, hist>>

WatchSubmit == submit_photo_json(11, "f1") /\ WatchDb
WatchApprove == \E p \in DOMAIN proofs : admin_approve(p) /\ WatchDb
WatchStart == \E t \in WatchTeams : Watchers_start(t, 11) /\ WatchOther
WatchFirst == \E i \in DOMAIN loops : loop_first(i) /\ WatchOther
WatchFirstAnswer == \E i \in DOMAIN loops : loop_first_answer(i) /\ WatchOther
WatchSendFirst == \E i \in DOMAIN loops : loop_send_first(i) /\ WatchOther
WatchPoll == \E i \in DOMAIN loops : loop_poll(i) /\ WatchOther
WatchSendFinish == \E i \in DOMAIN loops : loop_send_finish(i) /\ WatchOther
WatchSendAck == \E i \in DOMAIN loops : loop_send_ack(i) /\ WatchOther
WatchSendCard == \E i \in DOMAIN loops : loop_send_card(i) /\ WatchOther
WatchError == \E i \in DOMAIN loops : loop_error(i) /\ WatchOther

NextWatch ==
    \/ WatchSubmit \/ WatchApprove \/ WatchStart
    \/ WatchFirst \/ WatchFirstAnswer \/ WatchSendFirst \/ WatchPoll
    \/ WatchSendFinish \/ WatchSendAck \/ WatchSendCard \/ WatchError

SpecWatch == InitRelaySpec /\ [][NextWatch]_vars

\* ------------------------------------------------------- team formation
\* Mutant: the phone is compared as typed.
norm_phone_Raw(raw) == raw

\* A phone as typed is <<form, n>>: "+7" is +7XXXXXXXXXn, "8" is 8XXXXXXXXXn
\* and "7" is 7XXXXXXXXXn (the same subscriber n); any other form is kept.
\* norm_phone rewrites the 11-digit forms to the "+7" form.
norm_phone(raw) == IF raw[1] \in {"+7", "8", "7"} THEN <<"+7", raw[2]>> ELSE raw

\* The whitelist file: the subscriber 2 is declared for team number 3 and
\* the subscribers 4 and 5 for team number 1.
Whitelist ==
    [p \in {<<"+7", 2>>, <<"+7", 4>>, <<"+7", 5>>} |-> IF p = <<"+7", 2>> THEN 3 ELSE 1]

\* whitelist.lookup(phone) and the team number parsed from the row; 0 when
\* the phone is not listed.
wl_team_number(phone) == IF phone \in DOMAIN Whitelist THEN Whitelist[phone] ELSE 0

\* The name "Команда №n".
DefaultName(n) == <<"default", n>>

\* models.Team(name=name): the column defaults of a new team.
NewTeam(name) ==
    [name |-> name, is_locked |-> FALSE, route_id |-> NULL,
     current_order_num |-> 1, can_rename |-> TRUE,
     started_at |-> NULL, finished_at |-> NULL]

\* The membership rows of a team, and their number, in a members table ms.
RowsOf(ms, team_id) == {i \in DOMAIN ms : ms[i].team_id = team_id}
MemberCountIn(ms, team_id) == Cardinality(RowsOf(ms, team_id))

MinOf(S) == CHOOSE x \in S : \A y \in S : x <= y

\* Mutant: the row with the highest id becomes CAPTAIN.
_ensure_captain_if_full_Last(ms, team_id) ==
    LET rows == RowsOf(ms, team_id) IN
    IF Cardinality(rows) < TEAM_SIZE THEN ms
    ELSE IF \E i \in rows : ms[i].role = "CAPTAIN" THEN ms
    ELSE [ms EXCEPT ![CHOOSE i \in rows : \A j \in rows : j <= i].role = "CAPTAIN"]

\* _ensure_captain_if_full: with TEAM_SIZE rows or more and no CAPTAIN among
\* them, the row with the lowest id becomes CAPTAIN.
_ensure_captain_if_full(ms, team_id) ==
    LET rows == RowsOf(ms, team_id) IN
    IF Cardinality(rows) < TEAM_SIZE THEN ms
    ELSE IF \E i \in rows : ms[i].role = "CAPTAIN" THEN ms
    ELSE [ms EXCEPT ![MinOf(rows)].role = "CAPTAIN"]

\* Mutant: locked teams count as open.
OpenTeams_IgnoreLock(ts, ms) == {t \in DOMAIN ts : MemberCountIn(ms, t) < TEAM_SIZE}

\* _next_open_team, first part: the unlocked teams below TEAM_SIZE members.
OpenTeams(ts, ms) ==
    {t \in DOMAIN ts : ~ts[t].is_locked /\ MemberCountIn(ms, t) < TEAM_SIZE}

\* Mutant: no name counts as used.
NameUsed_Never(ts, name) == FALSE

\* _next_open_team, second part: n starts at count(teams) + 1 and goes up
\* while a team named "Команда №n" exists.
NameUsed(ts, name) == \E t \in DOMAIN ts : ts[t].name = name

NextSuffix(ts) ==
    LET base_n == Len(ts) + 1
    IN  CHOOSE n \in base_n..(base_n + Len(ts)) :
            /\ ~NameUsed(ts, DefaultName(n))
            /\ \A m \in base_n..(n - 1) : NameUsed(ts, DefaultName(m))

\* _next_open_team: <<team id, teams table after the call>>.
_next_open_team(ts, ms) ==
    IF OpenTeams(ts, ms) # {} THEN <<MinOf(OpenTeams(ts, ms)), ts>>
    ELSE <<Len(ts) + 1, Append(ts, NewTeam(DefaultName(NextSuffix(ts))))>>

\* The team the whitelist prefers for team number num: the team named
\* "Команда №num", else the team with id num, else a new team of that name.
PreferredTeam(ts, num) ==
    LET byName == {t \in DOMAIN ts : ts[t].name = DefaultName(num)}
    IN  IF byName # {} THEN <<CHOOSE t \in byName : TRUE, ts>>
        ELSE IF num \in DOMAIN ts THEN <<num, ts>>
        ELSE <<Len(ts) + 1, Append(ts, NewTeam(DefaultName(num)))>>

\* _auto_assign_route_if_needed on team tid of the table ts.
_auto_assign_route_if_needed(ts, tid) ==
    IF Truthy(ts[tid].route_id) THEN ts
    ELSE IF _auto_assign_route(ts) = NULL THEN ts
    ELSE [ts EXCEPT ![tid].route_id = _auto_assign_route(ts)]

\* A response that names a team.
TeamReply(op, arg, ref, code, ok, message, team_id) ==
    [op |-> op, arg |-> arg, ref |-> ref, code |-> code, ok |-> ok,
     message |-> message, proof_id |-> NULL, team_id |-> team_id]

\* POST /api/users/register.
register_or_assign(tg_id, raw_phone, last_name) ==
    LET phone == norm_phone(raw_phone)
        byTg == UserByTg(tg_id)
        byPhone == {i \in DOMAIN users : users[i].phone = phone}
        R(code, ok, message, team_id) ==
            TeamReply("register_or_assign", tg_id, raw_phone, code, ok, message, team_id)
    IN
    /\ UNCHANGED <<proofs, checkpoints, now, relayVars, reqs>>
    /\ IF byTg = NULL /\ Cardinality(byPhone) > 1 THEN
            /\ last' = R(500, FALSE, "MultipleResultsFound", NULL)
            /\ UNCHANGED <<users, members, teams>>
       ELSE
            LET uid == IF byTg # NULL THEN byTg
                       ELSE IF byPhone # {} THEN CHOOSE i \in byPhone : TRUE
                       ELSE Len(users) + 1
                users1 ==
                    IF byTg # NULL THEN users
                    ELSE IF byPhone # {} THEN
                        [users EXCEPT ![uid].tg_id = tg_id,
                                      ![uid].first_name = FirstNameOf(tg_id),
                                      ![uid].last_name = IF last_name # "" THEN last_name ELSE @]
                    ELSE Append(users, UserRow(tg_id, phone, FirstNameOf(tg_id),
                                               IF last_name # "" THEN last_name ELSE NULL))
                member == MemberByUser(uid)
                num == wl_team_number(phone)
                pick == IF member # NULL THEN <<members[member].team_id, teams>>
                        ELSE IF num # 0 THEN PreferredTeam(teams, num)
                        ELSE _next_open_team(teams, members)
                tid == pick[1]
                members1 == IF member # NULL THEN members
                            ELSE _ensure_captain_if_full(
                                    Append(members, Member(tid, uid, "PLAYER")), tid)
                teams1 == IF MemberCountIn(members1, tid) >= TEAM_SIZE
                                /\ ~Truthy(pick[2][tid].route_id)
                          THEN _auto_assign_route_if_needed(pick[2], tid)
                          ELSE pick[2]
            IN
            /\ Len(users1) <= MaxUsers
            /\ users' = users1
            /\ members' = members1
            /\ teams' = teams1
            /\ last' = R(200, TRUE, "", tid)

\* A team name as typed is <<kind, k, pad>>; strip() drops the padding. The
\* kind "short" is a name of fewer than 2 characters.
strip(raw_name) == <<raw_name[1], raw_name[2]>>

\* Mutant: the rename never counts as used.
RenameSpent_Never(team) == FALSE

\* not getattr(team, "can_rename", True)
RenameSpent(team) == ~team.can_rename

\* POST /api/team/rename and /api/teams/rename.
_rename_core(tg_id, raw_name) ==
    LET user == UserByTg(tg_id)
        member == IF user = NULL THEN NULL ELSE MemberByUser(user)
        tid == IF member = NULL THEN NULL ELSE members[member].team_id
        new_name == strip(raw_name)
        R(code, ok, message) == TeamReply("_rename_core", tg_id, raw_name, code, ok, message, tid)
    IN
    /\ UNCHANGED <<users, members, proofs, checkpoints, now, relayVars, reqs>>
    /\ IF user = NULL THEN
            last' = R(404, FALSE, "User not found") /\ UNCHANGED teams
       ELSE IF member = NULL THEN
            last' = R(409, FALSE, "User has no team") /\ UNCHANGED teams
       ELSE IF members[member].role # "CAPTAIN" THEN
            last' = R(403, FALSE, "Only captain can rename") /\ UNCHANGED teams
       ELSE IF ~_team_is_full(tid) THEN
            last' = R(409, FALSE, "Team is not full yet") /\ UNCHANGED teams
       ELSE IF teams[tid].started_at # NULL THEN
            last' = R(409, FALSE, "Team already started") /\ UNCHANGED teams
       ELSE IF RenameSpent(teams[tid]) THEN
            last' = R(409, FALSE, "Rename already used") /\ UNCHANGED teams
       ELSE IF new_name[1] = "short" THEN
            last' = R(400, FALSE, "New name is too short") /\ UNCHANGED teams
       ELSE IF \E t \in DOMAIN teams : t # tid /\ teams[t].name = new_name THEN
            last' = R(409, FALSE, "Team name already exists") /\ UNCHANGED teams
       ELSE
            /\ teams' = [teams EXCEPT ![tid].name = new_name, ![tid].can_rename = FALSE]
            /\ last' = R(200, TRUE, "renamed")

\* POST /api/admin/teams/lock: lock every team, promoting a captain in each
\* full team that has none.
RECURSIVE EnsureAll(_, _)
EnsureAll(ms, T) ==
    IF T = {} THEN ms
    ELSE LET t == MinOf(T) IN EnsureAll(_ensure_captain_if_full(ms, t), T \ {t})

admin_lock_all ==
    /\ teams' = [t \in DOMAIN teams |-> [teams[t] EXCEPT !.is_locked = TRUE]]
    /\ members' = EnsureAll(members, DOMAIN teams)
    /\ last' = TeamReply("admin_lock_all", NULL, "", 200, TRUE, "", NULL)
    /\ UNCHANGED <<users, proofs, checkpoints, now, relayVars, reqs>>

\* POST /api/admin/teams/unlock.
admin_unlock_all ==
    /\ teams' = [t \in DOMAIN teams |-> [teams[t] EXCEPT !.is_locked = FALSE]]
    /\ last' = TeamReply("admin_unlock_all", NULL, "", 200, TRUE, "", NULL)
    /\ UNCHANGED <<users, members, proofs, checkpoints, now, relayVars, reqs>>

\* The user an admin request names: who is <<"user_id", id>>, <<"tg_id", tg>>
\* or <<"none", 0>> (neither given); NULL when there is no such user.
UserByRef(who) ==
    IF who[1] = "user_id" THEN (IF who[2] \in DOMAIN users THEN who[2] ELSE NULL)
    ELSE UserByTg(who[2])

\* Every CAPTAIN row of the team becomes PLAYER.
Demote(ms, team_id) ==
    [i \in DOMAIN ms |->
        IF ms[i].team_id = team_id /\ ms[i].role = "CAPTAIN"
        THEN [ms[i] EXCEPT !.role = "PLAYER"] ELSE ms[i]]

\* POST /api/admin/teams/{team_id}/set-captain.
admin_set_captain(team_id, who) ==
    LET user == UserByRef(who)
        rows == IF user = NULL THEN {}
                ELSE {i \in RowsOf(members, team_id) : members[i].user_id = user}
        R(code, ok, message) == TeamReply("admin_set_captain", who, "", code, ok, message, team_id)
    IN
    /\ UNCHANGED <<users, teams, proofs, checkpoints, now, relayVars, reqs>>
    /\ IF who[1] = "none" THEN
            last' = R(400, FALSE, "Provide user_id or tg_id") /\ UNCHANGED members
       ELSE IF team_id \notin DOMAIN teams THEN
            last' = R(404, FALSE, "Team not found") /\ UNCHANGED members
       ELSE IF user = NULL THEN
            last' = R(404, FALSE, "User not found") /\ UNCHANGED members
       ELSE IF rows = {} THEN
            last' = R(409, FALSE, "User is not a member of this team") /\ UNCHANGED members
       ELSE
            /\ members' = [Demote(members, team_id) EXCEPT
                                ![CHOOSE i \in rows : TRUE].role = "CAPTAIN"]
            /\ last' = R(200, TRUE, "")

\* POST /api/admin/teams/{team_id}/unset-captain. With no such team the
\* update matches no row and building the response fails.
admin_unset_captain(team_id) ==
    /\ members' = Demote(members, team_id)
    /\ last' = IF team_id \in DOMAIN teams
               THEN TeamReply("admin_unset_captain", NULL, "", 200, TRUE, "", team_id)
               ELSE TeamReply("admin_unset_captain", NULL, "", 500, FALSE, "AttributeError", team_id)
    /\ UNCHANGED <<users, teams, proofs, checkpoints, now, relayVars, reqs>>

\* POST /api/admin/members/move.
admin_move_member(who, dest_team_id, make_captain) ==
    LET user == UserByRef(who)
        member == IF user = NULL THEN NULL ELSE MemberByUser(user)
        R(code, ok, message) ==
            TeamReply("admin_move_member", who, "", code, ok, message, dest_team_id)
    IN
    /\ UNCHANGED <<users, teams, proofs, checkpoints, now, relayVars, reqs>>
    /\ IF who[1] = "none" THEN
            last' = R(400, FALSE, "Provide user_id or tg_id") /\ UNCHANGED members
       ELSE IF user = NULL THEN
            last' = R(404, FALSE, "User not found") /\ UNCHANGED members
       ELSE IF member = NULL THEN
            last' = R(409, FALSE, "User has no team membership") /\ UNCHANGED members
       ELSE IF dest_team_id \notin DOMAIN teams THEN
            last' = R(404, FALSE, "Destination team not found") /\ UNCHANGED members
       ELSE
            /\ members' = [members EXCEPT
                                ![member].team_id = dest_team_id,
                                ![member].role = IF make_captain THEN "CAPTAIN" ELSE "PLAYER"]
            /\ last' = R(200, TRUE, "")

\* Registration on an empty database, with every way to type a phone and
\* a last name, beside lock and unlock; the checkpoints table is the fixture.
RegTgIds == {11, 12, 13}
RegPhones == {<<"+7", 1>>, <<"8", 1>>, <<"+7", 2>>, <<"8", 3>>}
LastNames == {"", "L"}

InitRegister ==
    /\ users = <<>>
    /\ members = <<>>
    /\ teams = <<>>
    /\ proofs = <<>>
    /\ checkpoints = Checkpoints
    /\ now = 1
    /\ last = NoReply
    /\ InitRelay
    /\ reqs = <<>>
    /\ hist = {}

RegRegister == \E tg \in RegTgIds, ph \in RegPhones, ln \in LastNames :
                    register_or_assign(tg, ph, ln) /\ UNCHANGED hist
RegLock == admin_lock_all /\ UNCHANGED hist
RegUnlock == admin_unlock_all /\ UNCHANGED hist

NextRegister == RegRegister \/ RegLock \/ RegUnlock

SpecRegister == InitRegister /\ [][NextRegister]_vars

\* Every user types one phone: 11 and 12 are not on the whitelist, 13 is.
PhoneOf(tg_id) == IF tg_id = 13 THEN <<"+7", 2>> ELSE <<"8", tg_id>>
NewNames == {<<"custom", 1, " ">>, <<"default", 2, "">>, <<"short", 0, "">>}
TeamRefs == {1, 2}
UserRefs == {<<"user_id", 1>>, <<"tg_id", 12>>, <<"none", 0>>}

\* Registration, rename and start beside lock, unlock and move member, on
\* an empty database; the checkpoints table is the fixture or empty.
InitTeams ==
    /\ users = <<>>
    /\ members = <<>>
    /\ teams = <<>>
    /\ proofs = <<>>
    /\ checkpoints \in {Checkpoints, {}}
    /\ now = 1
    /\ last = NoReply
    /\ InitRelay
    /\ reqs = <<>>
    /\ hist = {}

TeamsRegister == \E tg \in RegTgIds : register_or_assign(tg, PhoneOf(tg), "") /\ UNCHANGED hist
TeamsRename == \E tg \in RegTgIds, nm \in NewNames : _rename_core(tg, nm) /\ UNCHANGED hist
TeamsStart == \E tg \in RegTgIds : game_start(tg) /\ UNCHANGED hist
TeamsLock == admin_lock_all /\ UNCHANGED hist
TeamsUnlock == admin_unlock_all /\ UNCHANGED hist
TeamsMove == \E t \in TeamRefs : admin_move_member(<<"tg_id", 12>>, t, FALSE) /\ UNCHANGED hist

NextTeams ==
    \/ TeamsRegister \/ TeamsRename \/ TeamsStart \/ TeamsLock \/ TeamsUnlock
    \/ TeamsMove

SpecTeams == InitTeams /\ [][NextTeams]_vars

\* Registration beside the admin's team operations (lock, unlock, set and
\* unset captain, move member), on an empty database.
AdminRegister == \E tg \in RegTgIds : register_or_assign(tg, PhoneOf(tg), "") /\ UNCHANGED hist
AdminLock == admin_lock_all /\ UNCHANGED hist
AdminUnlock == admin_unlock_all /\ UNCHANGED hist
AdminSetCaptain == \E t \in TeamRefs, who \in UserRefs : admin_set_captain(t, who) /\ UNCHANGED hist
AdminUnsetCaptain == \E t \in TeamRefs : admin_unset_captain(t) /\ UNCHANGED hist
AdminMove == \E who \in UserRefs, t \in TeamRefs, mc \in BOOLEAN :
                admin_move_member(who, t, mc) /\ UNCHANGED hist

NextAdmin ==
    \/ AdminRegister \/ AdminLock \/ AdminUnlock
    \/ AdminSetCaptain \/ AdminUnsetCaptain \/ AdminMove

SpecAdmin == InitTeams /\ [][NextAdmin]_vars

\* Route assignment as a function of the tables: RouteTeams teams, each
\* unrouted or bound to route 1 or 2, the checkpoints table the fixture or
\* empty; _auto_assign_route_if_needed is applied to any of the teams.
auto_assign(tid) ==
    /\ teams' = _auto_assign_route_if_needed(teams, tid)
    /\ last' = TeamReply("_auto_assign_route_if_needed", tid, "", 0,
                         Truthy(teams[tid].route_id) \/ _auto_assign_route(teams) # NULL,
                         "", tid)
    /\ UNCHANGED <<users, members, proofs, checkpoints, now, relayVars, reqs>>

InitRoute ==
    /\ users = <<>>
    /\ members = <<>>
    /\ teams \in [1..RouteTeams -> {[NewTeam(DefaultName(1)) EXCEPT !.route_id = r] :
                                        r \in {NULL, 1, 2}}]
    /\ proofs = <<>>
    /\ checkpoints \in {Checkpoints, {}}
    /\ now = 1
    /\ last = NoReply
    /\ InitRelay
    /\ reqs = <<>>
    /\ hist = {}

RouteAssign == \E t \in 1..RouteTeams : auto_assign(t) /\ UNCHANGED hist

NextRoute == RouteAssign

SpecRoute == InitRoute /\ [][NextRoute]_vars

\* Registration with one phone outside the whitelist and the phones of the
\* whitelist, beside rename, lock and unlock.
BindPhones == {<<"8", 1>>, <<"+7", 2>>, <<"8", 4>>, <<"+7", 5>>}
BindNames == {<<"custom", 1, " ">>, <<"default", 3, "">>}

BindRegister == \E tg \in RegTgIds, ph \in BindPhones :
                    register_or_assign(tg, ph, "") /\ UNCHANGED hist
BindRename == \E tg \in RegTgIds, nm \in BindNames : _rename_core(tg, nm) /\ UNCHANGED hist
BindLock == admin_lock_all /\ UNCHANGED hist
BindUnlock == admin_unlock_all /\ UNCHANGED hist

NextBind == BindRegister \/ BindRename \/ BindLock \/ BindUnlock

SpecBind == InitRegister /\ [][NextBind]_vars

\* The whole game on an empty database: teams form, rename and start, the
\* captains submit and the moderators judge, beside the admin's operations.
GameRegister == \E tg \in RegTgIds : register_or_assign(tg, PhoneOf(tg), "") /\ UNCHANGED hist
GameRename == \E tg \in RegTgIds : _rename_core(tg, <<"custom", 1, "">>) /\ UNCHANGED hist
GameStart == \E tg \in RegTgIds : game_start(tg) /\ UNCHANGED hist
GameSubmit == \E tg \in RegTgIds : submit_photo_json(tg, "f1") /\ UNCHANGED hist
GameApprove == \E p \in DOMAIN proofs : admin_approve(p) /\ UNCHANGED hist
GameReject == \E p \in DOMAIN proofs : admin_reject(p) /\ UNCHANGED hist
GameLock == admin_lock_all /\ UNCHANGED hist
GameUnlock == admin_unlock_all /\ UNCHANGED hist
GameSetCaptain == admin_set_captain(1, <<"tg_id", 12>>) /\ UNCHANGED hist
GameUnsetCaptain == admin_unset_captain(1) /\ UNCHANGED hist
GameMove == \E t \in TeamRefs : admin_move_member(<<"tg_id", 12>>, t, FALSE) /\ UNCHANGED hist

NextGame ==
    \/ GameRegister \/ GameRename \/ GameStart
    \/ GameSubmit \/ GameApprove \/ GameReject
    \/ GameLock \/ GameUnlock \/ GameSetCaptain \/ GameUnsetCaptain \/ GameMove

SpecGame == InitRegister /\ [][NextGame]_vars

\* ==================================================================== claims
SubmitOps == {"submit_photo_json", "submit_photo_file"}

\* The team tg_id is captain of, NULL when tg_id is no captain.
CaptainTeam(tg_id) ==
    LET user == UserByTg(tg_id)
        member == IF user = NULL THEN NULL ELSE MemberByUser(user)
    IN  IF member = NULL THEN NULL
        ELSE IF members[member].role = "CAPTAIN" THEN members[member].team_id
        ELSE NULL

\* The rows in the given status for the current checkpoint of the started
\* team tg_id is captain of; empty when there is no such team or checkpoint.
CurrentRows(tg_id, status) ==
    LET tid == CaptainTeam(tg_id) IN
    IF tid = NULL THEN {}
    ELSE IF teams[tid].started_at = NULL THEN {}
    ELSE {i \in DOMAIN proofs :
              /\ proofs[i].team_id = tid
              /\ proofs[i].checkpoint_id = _current_checkpoint(teams[tid])
              /\ proofs[i].status = status}

CurrentPending(tg_id) == CurrentRows(tg_id, "PENDING")

CurrentRejected(tg_id) == CurrentRows(tg_id, "REJECTED")

\* C1: a submission (either encoding, with a media reference) by the captain
\* of a started team whose current checkpoint already has a PENDING proof
\* answers ok with the id of that proof, adds no row and changes no field of
\* any row (so the version key is unchanged) and no team; as the state is
\* unchanged, a repeated call answers the same proof id.
C1_PendingSubmitReturnsExisting ==
    [][ last'.op \in SubmitOps /\ last'.ref # "" =>
            LET pend == CurrentPending(last'.arg) IN
            pend # {} => ( /\ last'.code = 200
                           /\ last'.ok
                           /\ last'.proof_id \in pend
                           /\ proofs' = proofs
                           /\ teams' = teams )
      ]_vars

\* C1 witness: the captain was just answered "already queued" with the id of
\* the PENDING row of the current checkpoint.
C1_Witness ==
    /\ last.op \in SubmitOps
    /\ last.message = "Already queued for moderation"
    /\ last.proof_id \in CurrentPending(last.arg)

\* C2: approve or reject of an existing proof that is not PENDING answers
\* 200 with ok = false, "Already processed", and leaves every proof row
\* (status, judged_by, judged_at, updated_at) and every team
\* (current_order_num, finished_at) as they were.
C2_JudgedProofIsNoOp ==
    [][ \A p \in DOMAIN proofs :
            ( /\ last'.op \in {"admin_approve", "admin_reject"}
              /\ last'.arg = p
              /\ proofs[p].status # "PENDING" )
            => ( /\ last'.code = 200
                 /\ ~last'.ok
                 /\ last'.message = "Already processed"
                 /\ proofs' = proofs
                 /\ teams' = teams )
      ]_vars

\* C2 witness: an approve and a reject were answered "Already processed"; here
\* the reject of an APPROVED proof.
C2_Witness ==
    /\ last.op = "admin_reject"
    /\ last.message = "Already processed"
    /\ last.arg \in DOMAIN proofs
    /\ proofs[last.arg].status = "APPROVED"

\* C3: a submission by the captain whose current checkpoint has no PENDING
\* but a REJECTED proof re-opens that row: same id, no new row, status
\* PENDING, media reference and submitter overwritten, judged_by, judged_at
\* and comment cleared, updated_at bumped, and the version key of the row is
\* one the row (or any row) never had before.
C3_ResubmitReopensRejected ==
    [][ \A tg \in TgIds :
            ( /\ last'.op \in SubmitOps
              /\ last'.arg = tg
              /\ last'.ref # ""
              /\ CurrentPending(tg) = {}
              /\ CurrentRejected(tg) # {} )
            => LET i == MaxOf(CurrentRejected(tg))
                   tid == CaptainTeam(tg)
                   kind == IF last'.op = "submit_photo_json" THEN "tg" ELSE "path"
               IN  /\ last'.code = 200
                   /\ last'.ok
                   /\ last'.proof_id = i
                   /\ Len(proofs') = Len(proofs)
                   /\ \A j \in DOMAIN proofs : j # i => proofs'[j] = proofs[j]
                   /\ proofs'[i].status = "PENDING"
                   /\ proofs'[i].photo_file_id =
                          Media(kind, tid, proofs[i].checkpoint_id, now, last'.ref)
                   /\ proofs'[i].submitted_by_user_id = UserByTg(tg)
                   /\ proofs'[i].judged_by = NULL
                   /\ proofs'[i].judged_at = NULL
                   /\ proofs'[i].comment = NULL
                   /\ proofs'[i].updated_at > proofs[i].updated_at
                   /\ proofs'[i].created_at = proofs[i].created_at
                   /\ _version_key(PendingItem(proofs', i)) \notin hist
      ]_vars

\* C3 witness: a rejected proof was just re-queued with the same media
\* reference it had when it was created.
C3_Witness ==
    /\ last.op \in SubmitOps
    /\ last.message = "Re-queued for moderation"
    /\ proofs[last.proof_id].status = "PENDING"
    /\ proofs[last.proof_id].judged_at = NULL
    /\ proofs[last.proof_id].updated_at > proofs[last.proof_id].created_at
    /\ \E k \in hist : /\ k[1] = last.proof_id
                       /\ k[3] = proofs[last.proof_id].photo_file_id
                       /\ k[2] < proofs[last.proof_id].updated_at

\* The order number of the checkpoint a proof row is for.
OrderOf(proof) == CheckpointById(proof.checkpoint_id).order_num

IsLastOnRoute(proof) == OrderOf(proof) = _route_total_checkpoints(proof.route_id)

\* The request in slot s finishes an approve with this step.
ApproveCompletes(s) ==
    /\ reqs[s].op = "approve"
    /\ reqs[s].pc \in {"team", "finish", "advance"}
    /\ reqs'[s].pc = "done"

\* C4 (as stated): every successful approve of a proof of the route's last
\* checkpoint leaves finished_at set and the counter alone; every other
\* successful approve increases current_order_num by exactly 1; the counter
\* never decreases and never moves by more than one.
C4_ApproveAdvancesOrFinishes ==
    [][ /\ \A s \in Slots : ApproveCompletes(s) =>
              LET tid == reqs[s].tid
                  proof == proofs[reqs[s].pid]
              IN  IF IsLastOnRoute(proof)
                  THEN /\ teams'[tid].finished_at # NULL
                       /\ teams'[tid].current_order_num = teams[tid].current_order_num
                  ELSE /\ teams'[tid].current_order_num = teams[tid].current_order_num + 1
                       /\ teams'[tid].finished_at = teams[tid].finished_at
        /\ \A t \in DOMAIN teams :
              teams'[t].current_order_num - teams[t].current_order_num \in {0, 1}
      ]_vars

\* C5 (as stated): finished_at, once set, is never overwritten or cleared,
\* and it is set only while the proof of the route's last checkpoint is
\* approved.
C5_FinishedAtWrittenOnce ==
    [][ \A t \in DOMAIN teams :
            /\ teams[t].finished_at # NULL
                    => teams'[t].finished_at = teams[t].finished_at
            /\ (teams[t].finished_at = NULL /\ teams'[t].finished_at # NULL)
                    => \E i \in DOMAIN proofs' :
                            /\ proofs'[i].team_id = t
                            /\ proofs'[i].status = "APPROVED"
                            /\ IsLastOnRoute(proofs'[i])
      ]_vars

\* C6: a team bound to a route never has current_order_num above the number
\* of checkpoints of the route plus one, whatever the requests' interleaving.
C6_OrderNumBounded ==
    \A t \in DOMAIN teams :
        Truthy(teams[t].route_id) =>
            teams[t].current_order_num <= _route_total_checkpoints(teams[t].route_id) + 1

\* C6 witness: the team stands on the last checkpoint of its route and has
\* finished, after an approve for that checkpoint went through.
C6_Witness ==
    /\ teams[1].current_order_num = _route_total_checkpoints(teams[1].route_id)
    /\ teams[1].finished_at # NULL
    /\ \E i \in DOMAIN proofs : proofs[i].status = "APPROVED" /\ IsLastOnRoute(proofs[i])

\* C7 (as stated): of the approve / reject requests that overlap on the same
\* PENDING proof (they read the same version of the row) at most one takes
\* effect, the others are answered "already processed".
C7_OneJudgementTakesEffect ==
    \A s1, s2 \in Slots :
        ( /\ s1 # s2
          /\ reqs[s1].op \in {"approve", "reject"}
          /\ reqs[s2].op \in {"approve", "reject"}
          /\ reqs[s1].pid = reqs[s2].pid
          /\ reqs[s1].ver = reqs[s2].ver
          /\ reqs[s1].pid # NULL /\ reqs[s1].ver # NULL )
        => ~(reqs[s1].result = "ok" /\ reqs[s2].result = "ok")

\* C8: no two proof rows are for the same (team, checkpoint), also when two
\* first submissions for the checkpoint overlap.
C8_OneProofPerTeamCheckpoint ==
    \A i, j \in DOMAIN proofs :
        (proofs[i].team_id = proofs[j].team_id
            /\ proofs[i].checkpoint_id = proofs[j].checkpoint_id) => i = j

\* C8 witness: two first submissions for the same checkpoint overlapped; one
\* created the row and the other failed on the constraint.
C8_Witness ==
    /\ reqs[1].op = "submit" /\ reqs[2].op = "submit"
    /\ reqs[1].tid = reqs[2].tid /\ reqs[1].cp = reqs[2].cp
    /\ reqs[1].result = "created" /\ reqs[2].result = "500"
    /\ Len(proofs) = 1

\* C9 (as stated): a proof's status only moves PENDING -> APPROVED,
\* PENDING -> REJECTED or REJECTED -> PENDING; APPROVED is terminal.
C9_StatusTransitions ==
    [][ \A i \in DOMAIN proofs :
            proofs'[i].status # proofs[i].status =>
                <<proofs[i].status, proofs'[i].status>> \in
                    { <<"PENDING", "APPROVED">>, <<"PENDING", "REJECTED">>,
                      <<"REJECTED", "PENDING">> }
      ]_vars

\* The number of cards pushed to the chat for a version key.
CardsFor(key) == CopiesIn(key, cards)

\* C10 (as stated): every version key the relay has handled got exactly one
\* card, and no key ever gets a second one.
C10_OneCardPerKey ==
    /\ \A k \in seen : CardsFor(k) = 1
    /\ \A k \in BagToSet(cards) : CardsFor(k) = 1

\* The loop handles the head of the batch with this step.
ItemStep == wpc = "batch" /\ batch # <<>> /\ batch' = Tail(batch)

\* C11: when the relay comes to an item of a proof id that already has a
\* delivered card under an older key still in the seen set, and no send was
\* tried yet for this version of the row (it was rejected and re-submitted
\* since), the item is not skipped: the send is tried, and when the channel
\* takes it the proof id has one card more.
C11_ReopenedProofGetsCard ==
    [][ ItemStep =>
          LET p == Head(batch)
              key == _version_key(p)
          IN  ( /\ <<p.id, p.updated_at>> \notin sentv
                /\ \E k0 \in seen : /\ k0[1] = p.id
                                    /\ k0[2] < p.updated_at
                                    /\ CardsFor(k0) >= 1 )
              => /\ wlast' \in {"sent", "failed"}
                 /\ <<p.id, p.updated_at>> \in sentv'
                 /\ wlast' = "sent" =>
                        /\ CopiesIn(key, cards') = 1
                        /\ \E k0 \in BagToSet(cards') : k0[1] = p.id /\ k0 # key
      ]_vars

\* C11 witness: the second card of one proof id was just delivered, for the
\* same media reference as the first, while the first key is still seen.
C11_Witness ==
    /\ wlast = "sent"
    /\ \E k1, k2 \in seen :
          /\ k1[1] = k2[1] /\ k1[3] = k2[3] /\ k1[2] < k2[2]
          /\ CardsFor(k1) = 1 /\ CardsFor(k2) = 1
          /\ proofs[k2[1]].status = "PENDING"
          /\ proofs[k2[1]].updated_at = k2[2]

\* C12 (as stated): when the send of a card fails, the key of the item is not
\* added to the seen set, and a key is in the seen set only if a card for it
\* was delivered.
C12_FailedSendNotSeen ==
    [][ /\ (ItemStep /\ wlast' = "failed") => _version_key(Head(batch)) \notin seen'
        /\ \A k \in seen' : CopiesIn(k, cards') >= 1
      ]_vars

\* The loop body ends with a failed send in this step.
FailStep == wpc = "batch" /\ batch # <<>> /\ batch' # batch /\ wlast' = "failed"

\* C13: a failed send leaves the loop in the same cycle with exactly the
\* remaining items of the batch to handle; every item handled after it whose
\* version was never tried gets its send tried; the cycle ends only when the
\* batch is used up, and then the loop sleeps for the next poll.
C13_FailureDoesNotAbortBatch ==
    [][ /\ FailStep => (batch' = Tail(batch) /\ wpc' = "batch")
        /\ (wpc = "batch" /\ batch # <<>> /\ batch' # batch
                /\ <<Head(batch).id, Head(batch).updated_at>> \notin sentv)
              => wlast' \in {"sent", "failed"}
        /\ (wpc = "batch" /\ wpc' # "batch") => (batch = <<>> /\ wpc' = "sleep")
      ]_vars

\* C13 witness: in one cycle over two pending proofs the first send failed
\* and the second was delivered.
C13_Witness ==
    /\ wpc = "batch" /\ batch = <<>> /\ wlast = "sent"
    /\ Len(admin_pending) = 2
    /\ LET k1 == _version_key(admin_pending[1])
           k2 == _version_key(admin_pending[2])
       IN  /\ k1 \in seen /\ CardsFor(k1) = 0
           /\ k2 \in seen /\ CardsFor(k2) = 1
           /\ order = <<k1, k2>>

\* The version keys a proof row of the relay specification can have.
KeySpace ==
    {<<i, t, TgMedia(f)>> : i \in 1 .. 2, t \in 1 .. MaxTime, f \in FileIds}

\* Some PENDING row has this version key.
PendingKey(k) ==
    \E i \in DOMAIN proofs :
        proofs[i].status = "PENDING" /\ _version_key(PendingItem(proofs, i)) = k

\* C14 (as stated): under fair scheduling, with polls and sends succeeding
\* at last, a proof version that is PENDING is eventually delivered as a
\* card, unless it stops being PENDING.
C14_PendingEventuallyDelivered ==
    \A k \in KeySpace :
        PendingKey(k) ~> (CardsFor(k) >= 1 \/ ~PendingKey(k))

\* A poll fails at transport level in this step (the loop gets no batch).
PollFails == wpc = "sleep" /\ fails' # fails /\ fails' # 0

\* C15 (as stated): the sleep after a failed poll doubles with every failed
\* poll in a row, from the base interval up to the ceiling, and the next
\* successful poll puts the backoff back to the base interval.
C15_BackoffDoubles ==
    [][ /\ (PollFails /\ fails = 0) => delay' = BACKOFF_BASE
        /\ (PollFails /\ fails > 0 /\ fails < MaxFails)
                => delay' = Min(2 * delay, BACKOFF_SLEEP_CAP)
        /\ delay' <= Max(BACKOFF_SLEEP_CAP, PollSleep)
        /\ wlast' = "end" => backoff' = BACKOFF_BASE
      ]_vars

\* The loop ends a batch with the seen set above its ceiling, so it trims.
TrimStep == wpc = "batch" /\ wpc' = "sleep" /\ Cardinality(seen) > SEEN_MAX

\* C16 (as stated): when the seen set exceeds its ceiling it is trimmed to a
\* bounded size, and the keys kept are the most recently inserted ones: no
\* key that stays was inserted before a key that is dropped.
C16_TrimKeepsNewest ==
    [][ TrimStep =>
            /\ seen' \subseteq seen
            /\ Cardinality(seen') <= SEEN_MAX
            /\ \A i, j \in 1..Len(order) :
                    (i < j /\ order[i] \in seen') => order[j] \in seen'
      ]_vars

\* Steps of the lifecycle: a stop() returns, a task is created, a poll or a
\* send is issued.
StopReturns == lev'[1] = "stop_return" /\ lev' # lev
TaskCreated == \E t \in TaskIds : tasks[t].st = "none" /\ tasks'[t].st # "none"
PollOrSend == lev'[1] \in {"poll", "send"} /\ lev' # lev

\* C17 (as stated): stop() on a running relay cancels the task and returns
\* only after the relay task has ended; after a stop() has returned no poll
\* and no send happens until start() is called again; start() never creates
\* a task while a relay task is still running.
C17_StopStartLifecycle ==
    [][ /\ (lev'[1] = "stop_await" /\ lev' # lev) => tasks'[_task].cancel
        /\ StopReturns => \A t \in TaskIds : ~Running(t)
        /\ PollOrSend => ~stopped
        /\ TaskCreated => \A t \in TaskIds : ~Running(t)
      ]_vars

\* C18 (as stated): in every reachable state a team whose finished_at is set
\* has current_order_num above the number of checkpoints of its route.
C18_FinishedIsPastRoute ==
    \A t \in DOMAIN teams :
        teams[t].finished_at # NULL =>
            teams[t].current_order_num > _route_total_checkpoints(teams[t].route_id)

\* The proof for the last checkpoint of the route of team t is approved.
LastApproved(t) ==
    \E i \in DOMAIN proofs : /\ proofs[i].team_id = t
                             /\ proofs[i].status = "APPROVED"
                             /\ IsLastOnRoute(proofs[i])

\* C19 (as stated): once the proof for the last checkpoint of its route is
\* approved, _current_checkpoint(team) is none; in every state before that
\* it is the checkpoint of the route whose order_num is current_order_num.
C19_CurrentCheckpoint ==
    \A t \in DOMAIN teams :
        Truthy(teams[t].route_id) =>
            LET cp == _current_checkpoint(teams[t]) IN
            IF LastApproved(t) THEN cp = NULL
            ELSE /\ cp # NULL
                 /\ CheckpointById(cp).route_id = teams[t].route_id
                 /\ CheckpointById(cp).order_num = teams[t].current_order_num

\* C20: a successful reject of a PENDING proof stamps judged_by and
\* judged_at, flips the status to REJECTED and changes no team (so
\* current_order_num, started_at and finished_at stay); and a step that
\* changes current_order_num or finished_at of a team is a successful approve
\* of a PENDING proof of that team.
C20_OnlyApproveAdvances ==
    [][ /\ \A p \in DOMAIN proofs :
                ( /\ last'.op = "admin_reject"
                  /\ last'.arg = p
                  /\ proofs[p].status = "PENDING" )
                => ( /\ last'.code = 200 /\ last'.ok
                     /\ proofs'[p].status = "REJECTED"
                     /\ proofs'[p].judged_by = 0
                     /\ proofs'[p].judged_at = now
                     /\ \A t \in DOMAIN teams :
                            /\ teams'[t].current_order_num = teams[t].current_order_num
                            /\ teams'[t].started_at = teams[t].started_at
                            /\ teams'[t].finished_at = teams[t].finished_at )
        /\ \A t \in DOMAIN teams :
                ( \/ teams'[t].current_order_num # teams[t].current_order_num
                  \/ teams'[t].finished_at # teams[t].finished_at )
                => ( /\ last'.op = "admin_approve"
                     /\ last'.ok
                     /\ last'.arg \in DOMAIN proofs
                     /\ proofs[last'.arg].status = "PENDING"
                     /\ proofs[last'.arg].team_id = t )
      ]_vars

\* C20 witness: a reject went through on a proof of a team that had already
\* advanced: the proof is REJECTED and stamped, the team still stands on
\* checkpoint 2 and has not finished.
C20_Witness ==
    /\ last.op = "admin_reject"
    /\ last.ok
    /\ last.arg \in DOMAIN proofs
    /\ proofs[last.arg].status = "REJECTED"
    /\ proofs[last.arg].judged_by = 0
    /\ proofs[last.arg].judged_at # NULL
    /\ teams[proofs[last.arg].team_id].current_order_num = 2
    /\ teams[proofs[last.arg].team_id].finished_at = NULL

\* The start gate of a team: full, a route bound or an eligible route to
\* bind, and not a default name with the rename right unused.
StartGate(t) ==
    /\ MemberCountIn(members, t) >= TEAM_SIZE
    /\ (Truthy(teams[t].route_id) \/ _routes_with_checkpoints # {})
    /\ ~(teams[t].name[1] = "default" /\ teams[t].can_rename)

\* C21: game_start called by the captain of a team that has not started
\* sets started_at exactly when the team is full, has a route (bound during
\* the call when missing) and does not carry a default name with the rename
\* right unused; then current_order_num is 1. Otherwise it answers 409 and
\* started_at stays unset. No other step sets started_at.
C21_StartGate ==
    [][ /\ \A tg \in RegTgIds :
            LET t == CaptainTeam(tg) IN
            ( /\ last'.op = "game_start" /\ last'.arg = tg
              /\ t # NULL
              /\ teams[t].started_at = NULL )
            => IF StartGate(t)
               THEN /\ last'.code = 200 /\ last'.ok /\ last'.message = "Started"
                    /\ teams'[t].started_at = now
                    /\ teams'[t].current_order_num = 1
                    /\ Truthy(teams'[t].route_id)
                    /\ _route_total_checkpoints(teams'[t].route_id) > 0
                           \/ teams'[t].route_id = teams[t].route_id
               ELSE /\ last'.code = 409 /\ ~last'.ok
                    /\ teams'[t].started_at = NULL
        /\ \A t \in DOMAIN teams :
            (teams[t].started_at = NULL /\ teams'[t].started_at # NULL)
            => /\ last'.op = "game_start" /\ last'.ok
               /\ CaptainTeam(last'.arg) = t
               /\ StartGate(t)
      ]_vars

\* C21 witness: a team whose captain used the rename has started: custom
\* name, rename right used, route bound, current_order_num 1.
C21_Witness ==
    /\ last.op = "game_start"
    /\ last.message = "Started"
    /\ \E t \in DOMAIN teams :
        /\ CaptainTeam(last.arg) = t
        /\ teams[t].started_at # NULL
        /\ teams[t].name[1] = "custom"
        /\ ~teams[t].can_rename
        /\ teams[t].current_order_num = 1
        /\ Truthy(teams[t].route_id)

\* C22: game_start called by the captain of a team whose started_at is set
\* answers ok ("Already started") and changes no row of any table: the
\* team's started_at, current_order_num, route and name stay, whether or not
\* the team is still full.
C22_StartIdempotent ==
    [][ \A tg \in RegTgIds :
            LET t == CaptainTeam(tg) IN
            ( /\ last'.op = "game_start" /\ last'.arg = tg
              /\ t # NULL
              /\ teams[t].started_at # NULL )
            => /\ last'.code = 200 /\ last'.ok
               /\ last'.message = "Already started"
               /\ teams' = teams
               /\ members' = members
               /\ users' = users
               /\ proofs' = proofs
      ]_vars

\* C22 witness: "Already started" was answered for a started team that is
\* no longer full.
C22_Witness ==
    /\ last.op = "game_start"
    /\ last.message = "Already started"
    /\ \E t \in DOMAIN teams :
        /\ CaptainTeam(last.arg) = t
        /\ teams[t].started_at # NULL
        /\ MemberCountIn(members, t) < TEAM_SIZE

\* The teams bound to route r; route r has a checkpoint.
TeamsOnRoute(r) == Cardinality({i \in DOMAIN teams : teams[i].route_id = r})
HasCheckpoint(r) == \E c \in checkpoints : c.route_id = r

\* C23: _auto_assign_route_if_needed on a team without a route binds it to a
\* route with a checkpoint whose number of bound teams is minimal among the
\* routes with a checkpoint, the lowest id on ties, and changes nothing
\* else; with no such route it fails and the team stays unrouted; on a team
\* with a route it changes nothing.
C23_AutoAssignRoute ==
    [][ \A t \in DOMAIN teams :
            (last'.op = "_auto_assign_route_if_needed" /\ last'.arg = t)
            => IF Truthy(teams[t].route_id) THEN last'.ok /\ teams' = teams
               ELSE IF \A r \in RouteIds : ~HasCheckpoint(r) THEN ~last'.ok /\ teams' = teams
               ELSE LET r == teams'[t].route_id IN
                    /\ last'.ok
                    /\ r \in RouteIds /\ HasCheckpoint(r)
                    /\ \A q \in RouteIds : HasCheckpoint(q) =>
                            \/ TeamsOnRoute(r) < TeamsOnRoute(q)
                            \/ (TeamsOnRoute(r) = TeamsOnRoute(q) /\ r <= q)
                    /\ teams' = [teams EXCEPT ![t].route_id = r]
      ]_vars

\* C23 witness: under uneven load the less loaded route 2 was bound: the
\* team just assigned is alone on route 2 while route 1 holds two teams.
C23_Witness ==
    /\ last.op = "_auto_assign_route_if_needed"
    /\ last.ok
    /\ teams[last.arg].route_id = 2
    /\ TeamsOnRoute(2) = 1
    /\ TeamsOnRoute(1) = 2

\* C24 (as stated): a step that brings a team from below TEAM_SIZE members
\* to TEAM_SIZE or more, while some route has a checkpoint, leaves the team
\* with a route bound; whichever operation adds the member.
C24_FullTeamGetsRoute ==
    [][ \A t \in DOMAIN teams' :
            ( /\ MemberCountIn(members, t) < TEAM_SIZE
              /\ MemberCountIn(members', t) >= TEAM_SIZE
              /\ \E r \in RouteIds : HasCheckpoint(r) )
            => Truthy(teams'[t].route_id)
      ]_vars

\* A registration adds a membership row in this step.
RegistrationJoins ==
    /\ last'.op = "register_or_assign"
    /\ Len(members') = Len(members) + 1

\* C25: when a registration brings a team to exactly TEAM_SIZE members and
\* no member of it is CAPTAIN, the row of the team with the lowest id becomes
\* CAPTAIN and every other row keeps its role; when a member is CAPTAIN
\* already, every row keeps its role and the new member is a PLAYER.
C25_FirstMemberPromoted ==
    [][ RegistrationJoins =>
            LET new == Len(members')
                t == members'[new].team_id
                rows == {i \in DOMAIN members' : members'[i].team_id = t}
                first == CHOOSE i \in rows : \A j \in rows : i <= j
            IN  Cardinality(rows) = TEAM_SIZE =>
                  IF \E i \in rows \ {new} : members[i].role = "CAPTAIN"
                  THEN /\ \A i \in DOMAIN members : members'[i] = members[i]
                       /\ members'[new].role = "PLAYER"
                  ELSE /\ members'[first].role = "CAPTAIN"
                       /\ \A i \in DOMAIN members \ {first} : members'[i] = members[i]
                       /\ new # first => members'[new].role = "PLAYER"
      ]_vars

\* C25 witness: U1 joined team 1 before U2 and the registration of U2 filled
\* the team: row 1 is U1 and CAPTAIN, row 2 is U2 and PLAYER.
C25_Witness ==
    /\ last.op = "register_or_assign"
    /\ Len(members) = 2
    /\ members[1] = Member(1, 1, "CAPTAIN")
    /\ members[2] = Member(1, 2, "PLAYER")
    /\ last.team_id = 1
    /\ users[2].tg_id = last.arg

\* C26 (as stated): after any sequence of registration, lock-all,
\* set-captain, unset-captain and move-member operations no team has more
\* than one member with role CAPTAIN.
C26_AtMostOneCaptain ==
    \A t \in DOMAIN teams :
        Cardinality({i \in DOMAIN members : /\ members[i].team_id = t
                                            /\ members[i].role = "CAPTAIN"}) <= 1

\* A registration places a user through _next_open_team in this step: it
\* adds a membership row and the whitelist gives no team for the phone.
PlacedByNextOpen ==
    /\ RegistrationJoins
    /\ wl_team_number(norm_phone(last'.ref)) = 0

\* C27: _next_open_team returns the lowest-id team that is unlocked and has
\* fewer than TEAM_SIZE members, and creates no team then; it creates a team
\* (unlocked, empty) only when there is no such team; so it never returns a
\* locked team or a team with TEAM_SIZE members.
C27_NextOpenTeam ==
    [][ PlacedByNextOpen =>
            LET t == members'[Len(members')].team_id
                open == {u \in DOMAIN teams :
                            /\ ~teams[u].is_locked
                            /\ Cardinality({i \in DOMAIN members : members[i].team_id = u})
                                    < TEAM_SIZE}
            IN  IF open # {}
                THEN /\ t \in open
                     /\ \A u \in open : t <= u
                     /\ Len(teams') = Len(teams)
                ELSE /\ t = Len(teams) + 1
                     /\ Len(teams') = Len(teams) + 1
                     /\ ~teams'[t].is_locked
      ]_vars

\* C27 witness: team 1 is locked and below capacity, and the registration
\* went to team 2.
C27_Witness ==
    /\ last.op = "register_or_assign"
    /\ wl_team_number(norm_phone(last.ref)) = 0
    /\ last.team_id = 2
    /\ members[Len(members)].team_id = 2
    /\ users[members[Len(members)].user_id].tg_id = last.arg
    /\ teams[1].is_locked
    /\ MemberCountIn(members, 1) < TEAM_SIZE

\* C28: when _next_open_team creates a team, the team is named "Команда №k"
\* with k the smallest positive number that no existing team name uses,
\* whatever the order in which the teams were created.
C28_SmallestUnusedSuffix ==
    [][ (PlacedByNextOpen /\ Len(teams') = Len(teams) + 1) =>
            LET used == {n \in 1..(Len(teams) + 1) :
                            \E u \in DOMAIN teams : teams[u].name = DefaultName(n)}
                k == CHOOSE n \in 1..(Len(teams) + 1) :
                            /\ n \notin used
                            /\ \A m \in 1..(n - 1) : m \in used
            IN  teams'[Len(teams')].name = DefaultName(k)
      ]_vars

\* The stored phone is the number typed in the request, in any of its
\* national spellings.
SamePhone(stored, raw) == stored[1] = "+7" /\ stored[2] = raw[2]

\* C29: register_or_assign resolves the user by tg_id first (no user row
\* changes then), else by normalized phone, putting the new tg_id on that
\* row: no user row is added, the row keeps its phone, and the membership
\* rows of that user are unchanged; else it adds a user row with the tg_id
\* and the normalized phone.
C29_ResolveUser ==
    [][ (last'.op = "register_or_assign" /\ last'.code = 200) =>
            LET tg == last'.arg
                raw == last'.ref
                byTg == {i \in DOMAIN users : users[i].tg_id = tg}
                byPhone == {i \in DOMAIN users : SamePhone(users[i].phone, raw)}
                rows(ms, i) == {j \in DOMAIN ms : ms[j].user_id = i}
            IN  IF byTg # {} THEN
                    /\ users' = users
                    /\ \E i \in byTg, j \in DOMAIN members' :
                            /\ members'[j].user_id = i
                            /\ members'[j].team_id = last'.team_id
                ELSE IF byPhone # {} THEN
                    /\ Len(users') = Len(users)
                    /\ \A i \in byPhone :
                            /\ users'[i].tg_id = tg
                            /\ users'[i].phone = users[i].phone
                            /\ rows(members', i) = rows(members, i)
                            /\ \A j \in rows(members, i) : members'[j] = members[j]
                    /\ \A i \in DOMAIN users \ byPhone : users'[i] = users[i]
                ELSE
                    /\ Len(users') = Len(users) + 1
                    /\ SubSeq(users', 1, Len(users)) = users
                    /\ users'[Len(users')].tg_id = tg
                    /\ SamePhone(users'[Len(users')].phone, raw)
      ]_vars

\* C29 witness: the only user row holds the phone +7..1, and the last
\* registration came from tg_id 12 with the phone typed as 8..1: one user
\* row, holding tg_id 12, with its one membership row.
C29_Witness ==
    /\ last.op = "register_or_assign"
    /\ last.arg = 12
    /\ last.ref = <<"8", 1>>
    /\ Len(users) = 1
    /\ users[1].tg_id = 12
    /\ users[1].phone = <<"+7", 1>>
    /\ Len(members) = 1
    /\ members[1].user_id = 1
    /\ last.team_id = members[1].team_id

\* The membership rows of a user in a members table.
MembershipsOf(ms, user_id) == {j \in DOMAIN ms : ms[j].user_id = user_id}

\* C30: after every step of registration and move-member (and the other
\* admin operations) every user has at most one membership row; and a
\* registration by a user who already has a membership returns the team of
\* that membership and leaves the members table as it was.
C30_OneMembership ==
    [][ /\ \A u \in DOMAIN users' : Cardinality(MembershipsOf(members', u)) <= 1
        /\ (last'.op = "register_or_assign" /\ last'.code = 200) =>
                \A u \in DOMAIN users :
                    (users'[u].tg_id = last'.arg /\ MembershipsOf(members, u) # {}) =>
                        /\ members' = members
                        /\ \A j \in MembershipsOf(members, u) :
                                last'.team_id = members[j].team_id
      ]_vars

\* C30 witness: the first user, placed in team 1 by the first registration
\* and moved to team 2 since, registered again: team 2 is returned and the
\* user still has one membership row.
C30_Witness ==
    /\ last.op = "register_or_assign"
    /\ last.arg = 11
    /\ last.team_id = 2
    /\ users[1].tg_id = 11
    /\ MembershipsOf(members, 1) = {1}
    /\ members[1].team_id = 2

\* C31: a registration that adds a membership for a phone the whitelist
\* declares for team number n puts the user in the team named "Команда №n":
\* the existing team of that name, else a team created with that name.
C31_WhitelistBinding ==
    [][ (RegistrationJoins /\ wl_team_number(norm_phone(last'.ref)) # 0) =>
            LET n == wl_team_number(norm_phone(last'.ref))
                t == members'[Len(members')].team_id
                named == {u \in DOMAIN teams : teams[u].name = DefaultName(n)}
            IN  /\ teams'[t].name = DefaultName(n)
                /\ IF named # {} THEN t \in named /\ Len(teams') = Len(teams)
                   ELSE t = Len(teams) + 1 /\ Len(teams') = Len(teams) + 1
      ]_vars

\* The team of the caller of the last request, by tg_id, in the tables ms
\* and us; the empty set when the caller has no membership.
TeamsOfCaller(us, ms, tg_id) ==
    {ms[j].team_id : j \in {k \in DOMAIN ms : \E u \in DOMAIN us :
                                us[u].tg_id = tg_id /\ ms[k].user_id = u}}

\* The rename in this step asks for a name that a team other than the
\* caller's has.
RenameToUsedName ==
    /\ last'.op = "_rename_core"
    /\ \E t \in DOMAIN teams :
            /\ t \notin TeamsOfCaller(users, members, last'.arg)
            /\ teams[t].name = <<last'.ref[1], last'.ref[2]>>

\* C32: after every step no two teams have the same name; and a rename to
\* a name that another team has is refused and changes no team, with 409
\* when the caller is the captain of a full, not started team that may
\* still rename.
C32_UniqueTeamNames ==
    [][ /\ \A t, u \in DOMAIN teams' : teams'[t].name = teams'[u].name => t = u
        /\ RenameToUsedName =>
                /\ ~last'.ok
                /\ teams' = teams
                /\ last'.code \in {403, 404, 409}
                /\ (\E j \in DOMAIN members, t \in TeamsOfCaller(users, members, last'.arg) :
                        /\ members[j].team_id = t
                        /\ users[members[j].user_id].tg_id = last'.arg
                        /\ members[j].role = "CAPTAIN"
                        /\ Cardinality({k \in DOMAIN members : members[k].team_id = t}) >= TEAM_SIZE
                        /\ teams[t].started_at = NULL
                        /\ teams[t].can_rename)
                    => (last'.code = 409 /\ last'.message = "Team name already exists")
      ]_vars

\* C32 witness: the captain of team 1 asked for the name of team 2 and was
\* refused: team 1 keeps its name and may still rename.
C32_Witness ==
    /\ last.op = "_rename_core"
    /\ last.code = 409
    /\ last.message = "Team name already exists"
    /\ last.team_id = 1
    /\ Len(teams) >= 2
    /\ teams[2].name = <<last.ref[1], last.ref[2]>>
    /\ teams[1].name # teams[2].name
    /\ teams[1].can_rename

\* The caller of the last request is a CAPTAIN member of team t, which is
\* full, not started and may still rename, all before the step.
MayRename(t) ==
    /\ \E j \in DOMAIN members :
            /\ members[j].team_id = t
            /\ members[j].role = "CAPTAIN"
            /\ users[members[j].user_id].tg_id = last'.arg
    /\ Cardinality({j \in DOMAIN members : members[j].team_id = t}) >= TEAM_SIZE
    /\ teams[t].started_at = NULL
    /\ teams[t].can_rename

\* C33: a rename succeeds only for the captain of a full, not started team
\* whose can_rename flag is set, and it clears the flag; no other step
\* changes a team's name or flag. So a cleared flag stays cleared with the
\* name fixed (at most one rename per team), and the name of a started team
\* never changes.
C33_RenameOnce ==
    [][ /\ (last'.op = "_rename_core" /\ last'.ok) =>
                /\ last'.team_id \in DOMAIN teams
                /\ MayRename(last'.team_id)
                /\ ~teams'[last'.team_id].can_rename
                /\ teams'[last'.team_id].name = <<last'.ref[1], last'.ref[2]>>
        /\ \A t \in DOMAIN teams :
                /\ (teams'[t].name # teams[t].name \/ teams'[t].can_rename # teams[t].can_rename) =>
                        (last'.op = "_rename_core" /\ last'.ok /\ last'.team_id = t)
                /\ ~teams[t].can_rename =>
                        (~teams'[t].can_rename /\ teams'[t].name = teams[t].name)
                /\ teams[t].started_at # NULL => teams'[t].name = teams[t].name
      ]_vars

\* C33 witness: team 1 was renamed by the last request: it has the custom
\* name and the flag is cleared.
C33_Witness ==
    /\ last.op = "_rename_core"
    /\ last.ok
    /\ last.team_id = 1
    /\ teams[1].name = <<"custom", 1>>
    /\ ~teams[1].can_rename
    /\ teams[1].started_at = NULL

\* C34: no team has more than TEAM_SIZE members, whatever registrations
\* (placed by _next_open_team or bound by the whitelist) came before.
C34_TeamsWithinCapacity ==
    \A t \in DOMAIN teams :
        Cardinality({j \in DOMAIN members : members[j].team_id = t}) <= TEAM_SIZE

\* C35: a team's current_order_num changes only in a successful approve of
\* a PENDING proof of that team, and then by one; registration, route
\* assignment, rename, start, submit, reject, set/unset captain, move member,
\* lock and unlock leave it as it is.
C35_OnlyAdvanceMovesPointer ==
    [][ \A t \in DOMAIN teams :
            teams'[t].current_order_num # teams[t].current_order_num =>
                /\ last'.op = "admin_approve"
                /\ last'.ok
                /\ last'.arg \in DOMAIN proofs
                /\ proofs[last'.arg].team_id = t
                /\ proofs[last'.arg].status = "PENDING"
                /\ teams'[t].current_order_num = teams[t].current_order_num + 1
      ]_vars

\* C35 witness: team 1 was advanced once and a later proof of it was
\* rejected by the last request: the pointer is still 2.
C35_Witness ==
    /\ last.op = "admin_reject"
    /\ last.ok
    /\ proofs[last.arg].team_id = 1
    /\ proofs[last.arg].status = "REJECTED"
    /\ teams[1].current_order_num = 2
    /\ teams[1].started_at # NULL

\* The PENDING proofs of team t in the proofs table ps.
PendingOf(ps, t) == {i \in DOMAIN ps : ps[i].team_id = t /\ ps[i].status = "PENDING"}

\* The proof row p is for the checkpoint of order_num n on route r.
ProofIsFor(p, r, n) ==
    \E c \in checkpoints : c.id = p.checkpoint_id /\ c.route_id = r /\ c.order_num = n

\* C36: with requests handled one at a time, after every step a team has
\* at most one PENDING proof and that proof is for the checkpoint at the
\* team's current_order_num on its route; and every successful approve
\* judges the proof of the checkpoint the team stood on, and moves the team
\* to the next order_num or, on the last checkpoint, finishes it.
C36_OnePendingAtPointer ==
    [][ /\ \A t \in DOMAIN teams' :
                /\ Cardinality(PendingOf(proofs', t)) <= 1
                /\ \A i \in PendingOf(proofs', t) :
                        ProofIsFor(proofs'[i], teams'[t].route_id, teams'[t].current_order_num)
        /\ (last'.op = "admin_approve" /\ last'.ok) =>
                LET p == proofs[last'.arg]
                    t == p.team_id
                    n == teams[t].current_order_num
                    total == Cardinality({c \in checkpoints : c.route_id = teams[t].route_id})
                IN  /\ p.status = "PENDING"
                    /\ proofs'[last'.arg].status = "APPROVED"
                    /\ ProofIsFor(p, teams[t].route_id, n)
                    /\ IF n < total
                       THEN teams'[t].current_order_num = n + 1 /\ teams'[t].finished_at = NULL
                       ELSE teams'[t].current_order_num = n /\ teams'[t].finished_at # NULL
      ]_vars

\* C36 witness: team 1 stands on checkpoint 2 of route 1 after an approve,
\* and its one PENDING proof is for checkpoint 2.
C36_Witness ==
    /\ teams[1].current_order_num = 2
    /\ Cardinality(PendingOf(proofs, 1)) = 1
    /\ \A i \in PendingOf(proofs, 1) : ProofIsFor(proofs[i], 1, 2)
    /\ \E i \in DOMAIN proofs :
            /\ proofs[i].team_id = 1
            /\ proofs[i].status = "APPROVED"
            /\ ProofIsFor(proofs[i], 1, 1)

\* The APPROVED proofs of team t.
ApprovedOf(t) == {i \in DOMAIN proofs : proofs[i].team_id = t /\ proofs[i].status = "APPROVED"}

\* C37: with requests handled one at a time, a team that is not finished
\* has current_order_num - 1 APPROVED proofs; a finished team has one
\* APPROVED proof for every checkpoint of its route and no more, and it has
\* started.
C37_ApprovedMatchesProgress ==
    \A t \in DOMAIN teams :
        LET route == {c \in checkpoints : c.route_id = teams[t].route_id} IN
        IF teams[t].finished_at = NULL
        THEN Cardinality(ApprovedOf(t)) = teams[t].current_order_num - 1
        ELSE /\ Cardinality(ApprovedOf(t)) = Cardinality(route)
             /\ \A c \in route : \E i \in ApprovedOf(t) : proofs[i].checkpoint_id = c.id
             /\ teams[t].started_at # NULL

\* C37 witness: team 1 has finished route 1 with both checkpoints APPROVED.
C37_Witness ==
    /\ Len(teams) >= 1
    /\ teams[1].finished_at # NULL
    /\ teams[1].route_id = 1
    /\ Cardinality(ApprovedOf(1)) = 2

\* The last request is a submission, complete in its fields, by the CAPTAIN
\* of a team whose finished_at was set before the step.
SubmitAfterFinish ==
    /\ last'.op \in {"submit_photo_json", "submit_photo_file"}
    /\ last'.ref # ""
    /\ \E j \in DOMAIN members :
            /\ users[members[j].user_id].tg_id = last'.arg
            /\ members[j].role = "CAPTAIN"
            /\ teams[members[j].team_id].finished_at # NULL

\* C38: a submission by the captain of a finished team answers "Route
\* already finished" as a normal reply (status 200) and leaves the proofs
\* table as it was: no row added, re-opened or modified.
C38_SubmitAfterFinish ==
    [][ SubmitAfterFinish =>
            /\ proofs' = proofs
            /\ last'.code = 200
            /\ last'.message = "Route already finished"
      ]_vars

\* The last request is a start, a rename or a submission that was refused
\* with NotFound, Conflict or the not-captain refusal.
RefusedRequest ==
    /\ last'.op \in {"game_start", "_rename_core", "submit_photo_json", "submit_photo_file"}
    /\ last'.code \in {403, 404, 409}

\* C39: a refused start, rename or submission leaves the teams table and
\* the proofs table as they were.
C39_RefusalChangesNothing ==
    [][ RefusedRequest => (teams' = teams /\ proofs' = proofs) ]_vars

\* The broadcasts of kind k about checkpoint cp to team t, so far.
Broadcasts(t, k, cp) == {n \in DOMAIN bsent : bsent[n] = <<t, k, cp>>}

\* C40: for every team at most one loop runs at a time, the task card of
\* each checkpoint is broadcast at most once and the finish message at most
\* once, whatever start calls, loop endings and restarts came before.
C40_WatcherOncePerTeam ==
    \A t \in WatchTeams :
        /\ Cardinality({i \in DOMAIN loops :
                            loops[i].team_id = t /\ loops[i].pc # "done"}) <= 1
        /\ \A c \in checkpoints : Cardinality(Broadcasts(t, "card", c.id)) <= 1
        /\ Cardinality(Broadcasts(t, "finish", NULL)) <= 1

\* C40 witness: team 1 got the cards of both checkpoints of its route and
\* the finish message, one each, from more than one loop.
C40_Witness ==
    /\ Len(loops) >= 2
    /\ Cardinality(Broadcasts(1, "card", 1)) = 1
    /\ Cardinality(Broadcasts(1, "card", 2)) = 1
    /\ Cardinality(Broadcasts(1, "finish", NULL)) = 1

====
